---- MODULE Spec2Model ----
(***************************************************************************)
(* Model of the analysis engine of pprof-to-md (src/src/analyzer.ts).      *)
(*                                                                         *)
(* One behaviour is one call of analyzeProfile(profile, options): the      *)
(* input is drawn in Init, and each action is one step of the call (the    *)
(* index check, the total, one sample of the aggregator loop, one sample   *)
(* of the tree-builder loop, the percentage passes, the ranker, the path   *)
(* extractor, the return).                                                 *)
(*                                                                         *)
(* Numeric values are integers (number and bigint are not distinguished;   *)
(* the loss of precision of Number() beyond 2^53 is outside the bounds).   *)
(* A percentage (value / total) * 100 is the exact rational, kept as a     *)
(* normalised fraction [num, den]; floating-point rounding is not          *)
(* modelled.                                                               *)
(***************************************************************************)
EXTENDS Integers, Sequences, FiniteSets, TLC

(***************************************************************************)
(* Bounds and alphabets of the input space.                                *)
(***************************************************************************)
MaxSamples == 2
MaxStack == 3
MaxFrames == 2
MaxKinds == 2
MaxFan == 11
MaxRoots == 6

Names == {"A", "B", "C"}
InlineNames == {"A", "B"}
Lines == {1, 2}
Values == {-10, 0, 10, 50, 100}
WideValues == {-10, 10, 50}
CalledValues == {10}
InlineValues == {10, 50}
KindValues == {0, 10}
FanValue == 10
FanRootValue == 20
ChainValues == {1, 30, 70}
SkippedValue == 10
RenderedValue == 30

(***************************************************************************)
(* Generic helpers.                                                        *)
(***************************************************************************)
Range(s) == {s[n] : n \in DOMAIN s}

SeqsUpTo(S, n) == UNION {[1..m -> S] : m \in 0..n}

Abs(x) == IF x < 0 THEN -x ELSE x

RECURSIVE Gcd(_, _)
Gcd(a, b) == IF b = 0 THEN a ELSE Gcd(b, a % b)

\* The rational n/d (d # 0) as a fraction in lowest terms with den > 0.
Rat(n, d) ==
  LET g == Gcd(Abs(n), Abs(d))
      s == IF d < 0 THEN -1 ELSE 1
  IN [num |-> (s * n) \div g, den |-> (s * d) \div g]

RatGeq(p, q) == p.num * q.den >= q.num * p.den

RatGt(p, q) == p.num * q.den > q.num * p.den

Zero == Rat(0, 1)

(***************************************************************************)
(* The input: a NormalizedProfile as normalizeProfile produces it.         *)
(***************************************************************************)
FunctionInfo(n) == [name |-> n, filename |-> "app.js", startLine |-> 1]

LineInfo(n, l) == [line |-> l, function |-> FunctionInfo(n)]

Location(frames) == [lines |-> frames]

\* The measurement kinds a profile declares are a prefix of this list.
SampleTypeList ==
  << [type |-> "samples", unit |-> "count"],
     [type |-> "cpu", unit |-> "nanoseconds"],
     [type |-> "wall", unit |-> "nanoseconds"],
     [type |-> "inuse_space", unit |-> "bytes"] >>

\* Locations of one Frame at line 1.
PlainLocations == {Location(<<LineInfo(n, 1)>>) : n \in Names}

OneKind == SubSeq(SampleTypeList, 1, 1)

\* Deep profiles: one sample with a stack of up to MaxStack Locations
\* (call chains, recursion).
DeepStacks == SeqsUpTo(PlainLocations, MaxStack)

DeepProfiles ==
  [sampleTypes : {OneKind},
   samples : {<<[stack |-> st, values |-> <<v>>]>> :
                st \in DeepStacks, v \in Values}]

\* Wide profiles: up to MaxSamples samples, each with an empty stack or a
\* leaf and a value of WideValues, or with a leaf and its caller and a value
\* of CalledValues.
WideStacks == {<<>>} \cup {<<l>> : l \in PlainLocations}

CalledStacks == {<<l, c>> : l \in PlainLocations, c \in PlainLocations}

WideSamples ==
  [stack : WideStacks, values : {<<v>> : v \in WideValues}]
    \cup [stack : CalledStacks, values : {<<v>> : v \in CalledValues}]

WideProfiles ==
  [sampleTypes : {OneKind}, samples : SeqsUpTo(WideSamples, MaxSamples)]

\* Inline profiles: one sample of a leaf, or a leaf and its caller, whose
\* Locations carry 0..MaxFrames Frames (inlining); the Frames of the leaf are
\* at different lines, those of the caller at line 1.
InlineFrames == {LineInfo(n, l) : n \in InlineNames, l \in Lines}

InlineLocations == {Location(fs) : fs \in SeqsUpTo(InlineFrames, MaxFrames)}

InlineCallerFrames == {LineInfo(n, 1) : n \in InlineNames}

InlineCallerLocations ==
  {Location(fs) : fs \in SeqsUpTo(InlineCallerFrames, MaxFrames)}

InlineStacks ==
  {<<l>> : l \in InlineLocations}
    \cup {<<l, c>> : l \in InlineLocations, c \in InlineCallerLocations}

InlineProfiles ==
  [sampleTypes : {OneKind},
   samples : {<<[stack |-> st, values |-> <<v>>]>> :
                st \in InlineStacks, v \in InlineValues}]

\* Kind profiles: 0..MaxKinds measurement kinds and at most two samples,
\* whose values arrays may be shorter than the list of kinds.
KindSamples(k) ==
  {[stack |-> <<Location(<<LineInfo("A", 1)>>)>>, values |-> vs] :
     vs \in SeqsUpTo(KindValues, k)}

KindProfiles ==
  UNION {
    [sampleTypes : {SubSeq(SampleTypeList, 1, k)},
     samples : {<<>>} \cup {<<s>> : s \in KindSamples(k)}
                 \cup {<<s, t>> : s \in KindSamples(k), t \in KindSamples(k)}]
    : k \in 0..MaxKinds }

PlainLocation(n) == Location(<<LineInfo(n, 1)>>)

PlainSample(names, v) ==
  [stack |-> [i \in DOMAIN names |-> PlainLocation(names[i])], values |-> <<v>>]

\* Fan profiles: k samples whose leaves F1..Fk are all called from R, then
\* r samples of the single frames S1..Sr; the former have the value FanValue,
\* the latter FanRootValue (trees with many leaves under one root child and
\* many root children).
FanSamples(k, r) ==
  [n \in 1..(k + r) |->
     IF n <= k THEN PlainSample(<<"F" \o ToString(n), "R">>, FanValue)
     ELSE PlainSample(<<"S" \o ToString(n - k)>>, FanRootValue)]

FanProfiles ==
  {[sampleTypes |-> OneKind, samples |-> FanSamples(k, r)] :
     k \in 0..MaxFan, r \in 0..MaxRoots}

\* Chain profiles: each of the stacks below, in this order, is absent or
\* present once with a value of ChainValues (root children with and without
\* children, and a branch point R below the root whose child M branches
\* again).
ChainStacks ==
  << <<"P">>, <<"L", "Q">>, <<"H", "R">>, <<"M1", "M", "R">>, <<"M2", "M", "R">> >>

RECURSIVE ChainSamples(_, _)
ChainSamples(choice, n) ==
  IF n = 0 THEN <<>>
  ELSE IF choice[n] = 0 THEN ChainSamples(choice, n - 1)
       ELSE Append(ChainSamples(choice, n - 1), PlainSample(ChainStacks[n], choice[n]))

ChainProfiles ==
  {[sampleTypes |-> OneKind, samples |-> ChainSamples(choice, Len(ChainStacks))] :
     choice \in [DOMAIN ChainStacks -> ChainValues \cup {0}]}

\* Skipped profiles: two samples of a leaf and its caller, one of them with
\* the value 0 and the other with SkippedValue, in either order.
SkippedSamples(v) == [stack : CalledStacks, values : {<<v>>}]

SkippedProfiles ==
  {[sampleTypes |-> OneKind, samples |-> <<s, t>>] :
     s \in SkippedSamples(0), t \in SkippedSamples(SkippedValue)}
    \cup {[sampleTypes |-> OneKind, samples |-> <<t, s>>] :
            s \in SkippedSamples(0), t \in SkippedSamples(SkippedValue)}

\* The arguments of analyzeProfile: a profile and options.sampleTypeIndex.
Inputs ==
  ((DeepProfiles \cup WideProfiles \cup InlineProfiles \cup FanProfiles
      \cup ChainProfiles \cup SkippedProfiles) \X {0})
    \cup (KindProfiles \X (-1..MaxKinds))

VARIABLES
  profile,        \* the NormalizedProfile argument
  sampleTypeIndex,\* options.sampleTypeIndex
  hotspotThreshold,\* options.hotspotThreshold (a fraction), read by the ranker
  pc,             \* position in analyzeProfile
  pos,            \* index of the next sample of the running loop
  totalValue,
  functionStats,  \* Map<string, FunctionStats> as a sequence in insertion order
  callTree,       \* CallTreeNode tree: key path from the root |-> node
  hotspots,
  recordedPaths,  \* the array paths of extractCriticalPaths before its final sort
  criticalPaths,
  result,         \* what the call has produced: nothing yet, a result, an error
  samplesRead,    \* history: number of samples the loops have read so far
  entry,          \* the function the caller invoked: analyzeProfile, convert, cli
  argv,           \* the command line of cli.ts (--format, --type)
  options,        \* the ConvertOptions of convert()
  profileType,    \* convert: the explicit or detected ProfileType
  cpc,            \* position in main() of cli.ts and in convert()
  output,         \* what convert() returns or main() prints
  par             \* positions of the two passes when they run independently

\* The state of analyzeProfile.
analysisVars ==
  << profile, sampleTypeIndex, hotspotThreshold, pc, pos, totalValue,
     functionStats, callTree, hotspots, recordedPaths, criticalPaths,
     result, samplesRead >>

\* The state of the callers of analyzeProfile.
frontVars == << entry, argv, options, profileType, cpc, output >>

vars == << analysisVars, frontVars, par >>

(***************************************************************************)
(* Numeric helpers (analyzer.ts 19-30) and the column read                 *)
(* sample.values[sampleTypeIndex] ?? 0.  sampleTypeIndex is the 0-based    *)
(* index of the code; sequences here are 1-based.                          *)
(***************************************************************************)
toNum(value) == value

addNumeric(a, b) == toNum(a) + toNum(b)

\* Variant of ValueAt: the first column, whatever the index.
ValueAtFirst(sample, index) ==
  IF 1 \in DOMAIN sample.values THEN sample.values[1] ELSE 0

ValueAt(sample, index) ==
  IF index + 1 \in DOMAIN sample.values THEN sample.values[index + 1] ELSE 0

\* (toNum(value) / totalNum) * 100
\* (the fraction is reduced before it is scaled, which keeps the numbers small)
Percent(value, total) ==
  LET ratio == Rat(toNum(value), toNum(total))
  IN Rat(100 * ratio.num, ratio.den)

\* let totalValue = 0; for (const sample of profile.samples) totalValue += value
RECURSIVE SumColumn(_, _, _)
SumColumn(samples, index, n) ==
  IF n = 0 THEN 0
  ELSE addNumeric(SumColumn(samples, index, n - 1), ValueAt(samples[n], index))

(***************************************************************************)
(* Statistics aggregator: aggregateFunctionStats.                          *)
(* The stats Map is a sequence of rows in insertion order; a Set<string>   *)
(* is a sequence without repetition in insertion order.  Stack positions   *)
(* are 1-based: i = 1 is the leaf (index 0 of the code).                   *)
(***************************************************************************)
\* Variant of KeyOf: the key of the function alone, without the line.
KeyOfFunction(fn, line) == fn.name \o "@" \o fn.filename

KeyOf(fn, line) == fn.name \o "@" \o fn.filename \o ":" \o ToString(line)

KeyIndex(stats, key) ==
  IF \E n \in DOMAIN stats : stats[n].key = key
  THEN CHOOSE n \in DOMAIN stats : stats[n].key = key
  ELSE 0

\* Variant of SetAdd: the set keeps only the element added last.
SetAddLast(set, x) == <<x>>

SetAdd(set, x) == IF x \in Range(set) THEN set ELSE Append(set, x)

RECURSIVE SetAddAll(_, _, _)
SetAddAll(set, xs, n) ==
  IF n > Len(xs) THEN set ELSE SetAddAll(SetAdd(set, xs[n]), xs, n + 1)

NewStats(fn, line) ==
  [key |-> KeyOf(fn, line),
   name |-> fn.name,
   filename |-> fn.filename,
   line |-> IF line = 0 THEN fn.startLine ELSE line,
   selfValue |-> 0,
   cumulativeValue |-> 0,
   selfPercent |-> Zero,
   cumulativePercent |-> Zero,
   sampleCount |-> 0,
   callers |-> <<>>,
   callees |-> <<>>]

getOrCreateStats(stats, fn, line) ==
  IF KeyIndex(stats, KeyOf(fn, line)) # 0 THEN stats
  ELSE Append(stats, NewStats(fn, line))

\* Variant of SelfCredit: the value is credited at every stack position.
SelfCreditEverywhere(i, value) == value

\* if (i === 0) fnStats.selfValue += value
SelfCredit(i, value) == IF i = 1 THEN value ELSE 0

\* Variant of FirstInSample: no dedup within a sample.
FirstInSampleAlways(seenInStack, key) == TRUE

\* if (!seenInStack.has(key)) { cumulativeValue += value; sampleCount++ }
FirstInSample(seenInStack, key) == key \notin seenInStack

RECURSIVE CallerNamesOuter(_, _)
\* The names of the Frames of the Location at position i, in order.
FrameNames(stack, i) ==
  [j \in DOMAIN stack[i].lines |-> stack[i].lines[j].function.name]

\* Variant of CallerNames: the Frames of every outer position.
CallerNamesOuter(stack, i) ==
  IF i < Len(stack)
  THEN FrameNames(stack, i + 1) \o CallerNamesOuter(stack, i + 1)
  ELSE <<>>

CallerNames(stack, i) ==
  IF i < Len(stack) THEN FrameNames(stack, i + 1) ELSE <<>>

CalleeNames(stack, i) ==
  IF i > 1 THEN FrameNames(stack, i - 1) ELSE <<>>

\* Body of the loop over the Frames of one Location (lines 145-173).
\* st = [stats, seenInStack].
AggregateFrame(st, stack, i, lineInfo, value) ==
  LET fn == lineInfo.function
      key == KeyOf(fn, lineInfo.line)
      s1 == getOrCreateStats(st.stats, fn, lineInfo.line)
      n == KeyIndex(s1, key)
      first == FirstInSample(st.seenInStack, key)
      row == [s1[n] EXCEPT
                !.selfValue = addNumeric(@, SelfCredit(i, value)),
                !.cumulativeValue = IF first THEN addNumeric(@, value) ELSE @,
                !.sampleCount = IF first THEN @ + 1 ELSE @,
                !.callers = SetAddAll(@, CallerNames(stack, i), 1),
                !.callees = SetAddAll(@, CalleeNames(stack, i), 1)]
  IN [stats |-> [s1 EXCEPT ![n] = row],
      seenInStack |-> st.seenInStack \cup {key}]

RECURSIVE AggregateLines(_, _, _, _, _)
AggregateLines(st, stack, i, j, value) ==
  IF j > Len(stack[i].lines) THEN st
  ELSE AggregateLines(AggregateFrame(st, stack, i, stack[i].lines[j], value),
                      stack, i, j + 1, value)

RECURSIVE AggregateStack(_, _, _, _)
\* Variant of AggregateStack: only the leaf Location is processed.
AggregateStackLeafOnly(st, stack, i, value) ==
  IF i > Len(stack) \/ i > 1 THEN st
  ELSE AggregateStack(AggregateLines(st, stack, i, 1, value), stack, i + 1, value)

AggregateStack(st, stack, i, value) ==
  IF i > Len(stack) THEN st
  ELSE AggregateStack(AggregateLines(st, stack, i, 1, value), stack, i + 1, value)

\* Body of the loop over the samples (lines 133-176).
AggregateSample(stats, sample, index) ==
  LET value == ValueAt(sample, index)
  IN IF toNum(value) = 0 THEN stats
     ELSE AggregateStack([stats |-> stats, seenInStack |-> {}],
                         sample.stack, 1, value).stats

\* Lines 178-184.
StatsPercentages(stats, total) ==
  [n \in DOMAIN stats |->
     [stats[n] EXCEPT
        !.selfPercent = Percent(stats[n].selfValue, total),
        !.cumulativePercent = Percent(stats[n].cumulativeValue, total)]]

(***************************************************************************)
(* Call tree builder: buildCallTree.                                       *)
(* The tree is a function from key paths (the keys from the root's child   *)
(* down to the node; <<>> is the root) to nodes; a node's children Map is  *)
(* the sequence of its children's keys in insertion order.                 *)
(***************************************************************************)
RootPath == <<>>

createEmptyNode(name) ==
  [key |-> name,
   name |-> name,
   filename |-> "",
   line |-> 0,
   selfValue |-> 0,
   cumulativeValue |-> 0,
   selfPercent |-> Zero,
   cumulativePercent |-> Zero,
   children |-> <<>>]

EmptyTree == (RootPath :> createEmptyNode("(root)"))

\* Variant of SeedRoot: the root is left as createEmptyNode made it.
SeedRootUnseeded(total) == (RootPath :> createEmptyNode("(root)"))

\* Lines 197-199: the root seeded from totalValue.
SeedRoot(total) ==
  (RootPath :> [createEmptyNode("(root)") EXCEPT
                  !.cumulativeValue = total,
                  !.cumulativePercent = Rat(100, 1)])

NewChild(fn, line) ==
  [key |-> KeyOf(fn, line),
   name |-> fn.name,
   filename |-> fn.filename,
   line |-> IF line = 0 THEN fn.startLine ELSE line,
   selfValue |-> 0,
   cumulativeValue |-> 0,
   selfPercent |-> Zero,
   cumulativePercent |-> Zero,
   children |-> <<>>]

\* Variant of TreeFrame: the value is added only when the child is created.
TreeFrameOnCreate(st, lineInfo, value) ==
  LET fn == lineInfo.function
      key == KeyOf(fn, lineInfo.line)
      child == Append(st.currentNode, key)
  IN IF child \in DOMAIN st.tree
     THEN [tree |-> st.tree, currentNode |-> child]
     ELSE [tree |-> [st.tree EXCEPT ![st.currentNode].children = Append(@, key)]
                      @@ (child :> [NewChild(fn, lineInfo.line) EXCEPT
                                      !.cumulativeValue = value]),
           currentNode |-> child]

\* Body of the loop over the Frames of one Location (lines 213-233).
\* st = [tree, currentNode], currentNode being the path of the node.
TreeFrame(st, lineInfo, value) ==
  LET fn == lineInfo.function
      key == KeyOf(fn, lineInfo.line)
      child == Append(st.currentNode, key)
      t1 == IF child \in DOMAIN st.tree THEN st.tree
            ELSE [st.tree EXCEPT ![st.currentNode].children = Append(@, key)]
                   @@ (child :> NewChild(fn, lineInfo.line))
  IN [tree |-> [t1 EXCEPT ![child].cumulativeValue = addNumeric(@, value)],
      currentNode |-> child]

RECURSIVE TreeLines(_, _, _, _)
\* Variant of TreeLines: only the first Frame of a Location is walked.
TreeLinesFirstFrame(st, lines, j, value) ==
  IF j > Len(lines) \/ j > 1 THEN st
  ELSE TreeLines(TreeFrame(st, lines[j], value), lines, j + 1, value)

TreeLines(st, lines, j, value) ==
  IF j > Len(lines) THEN st
  ELSE TreeLines(TreeFrame(st, lines[j], value), lines, j + 1, value)

RECURSIVE TreeStack(_, _, _, _)
\* Variant of TreeStack: the walk stops above the leaf Location.
TreeStackAboveLeaf(st, stack, i, value) ==
  IF i < 2 THEN st
  ELSE TreeStack(TreeLines(st, stack[i].lines, 1, value), stack, i - 1, value)

\* for (let i = sample.stack.length - 1; i >= 0; i--): root to leaf.
TreeStack(st, stack, i, value) ==
  IF i < 1 THEN st
  ELSE TreeStack(TreeLines(st, stack[i].lines, 1, value), stack, i - 1, value)

\* Body of the loop over the samples (lines 201-239).
\* Variant of TreeWalk: the stack is walked in storage order, leaf first.
TreeWalkLeafFirst(tree, stack, value) ==
  TreeStack([tree |-> tree, currentNode |-> RootPath],
            [i \in DOMAIN stack |-> stack[Len(stack) + 1 - i]], Len(stack), value)

\* The walk of one sample from the root (lines 205-235).
TreeWalk(tree, stack, value) ==
  TreeStack([tree |-> tree, currentNode |-> RootPath], stack, Len(stack), value)

\* Variant of TreeSample: the sample is skipped while the aggregator's map
\* is empty.
TreeSampleShared(tree, sample, index) ==
  LET value == ValueAt(sample, index)
      st == TreeWalk(tree, sample.stack, value)
  IN IF toNum(value) = 0 \/ functionStats = <<>> THEN tree
     ELSE [st.tree EXCEPT ![st.currentNode].selfValue = addNumeric(@, value)]

TreeSample(tree, sample, index) ==
  LET value == ValueAt(sample, index)
      st == TreeWalk(tree, sample.stack, value)
  IN IF toNum(value) = 0 THEN tree
     ELSE [st.tree EXCEPT ![st.currentNode].selfValue = addNumeric(@, value)]

RECURSIVE calculateTreePercentages(_, _, _)
RECURSIVE PercentagesOfChildren(_, _, _, _)
calculateTreePercentages(tree, node, total) ==
  LET t1 == [tree EXCEPT
               ![node].selfPercent = Percent(tree[node].selfValue, total),
               ![node].cumulativePercent =
                  Percent(tree[node].cumulativeValue, total)]
  IN PercentagesOfChildren(t1, node, 1, total)

PercentagesOfChildren(tree, node, c, total) ==
  IF c > Len(tree[node].children) THEN tree
  ELSE PercentagesOfChildren(
         calculateTreePercentages(tree, Append(node, tree[node].children[c]), total),
         node, c + 1, total)

(***************************************************************************)
(* Array.prototype.sort with a comparator (a, b) => key(b) - key(a): a     *)
(* stable sort into non-increasing order.  Geq(a, b) is key(a) >= key(b).  *)
(***************************************************************************)
\* Variant of SortDesc: among equal keys the later element comes first.
SortDescLaterFirst(xs, keys) ==
  LET Before(m, n) ==
        \/ RatGt(keys[m], keys[n])
        \/ keys[m] = keys[n] /\ m > n
      Rank(n) == Cardinality({m \in DOMAIN xs : Before(m, n)}) + 1
  IN [r \in DOMAIN xs |-> xs[CHOOSE n \in DOMAIN xs : Rank(n) = r]]

\* keys[n] is the sort key of xs[n], a fraction; xs[m] is placed before xs[n]
\* when its key is greater, or equal with m < n.
SortDesc(xs, keys) ==
  LET Before(m, n) ==
        \/ RatGt(keys[m], keys[n])
        \/ keys[m] = keys[n] /\ m < n
      Rank(n) == Cardinality({m \in DOMAIN xs : Before(m, n)}) + 1
  IN [r \in DOMAIN xs |-> xs[CHOOSE n \in DOMAIN xs : Rank(n) = r]]

(***************************************************************************)
(* Hotspot ranker: identifyHotspots.                                       *)
(***************************************************************************)
\* threshold * 100, the threshold being a fraction [num, den].
ThresholdPercent(threshold) == Rat(100 * threshold.num, threshold.den)

\* Variant of IsHotspot: a strict comparison.
IsHotspotStrict(stats, threshold) ==
  RatGt(stats.selfPercent, ThresholdPercent(threshold))

\* if (stats.selfPercent >= threshold * 100)
IsHotspot(stats, threshold) ==
  RatGeq(stats.selfPercent, ThresholdPercent(threshold))

ToHotspot(stats) ==
  [key |-> stats.key,
   name |-> stats.name,
   filename |-> stats.filename,
   line |-> stats.line,
   selfValue |-> stats.selfValue,
   cumulativeValue |-> stats.cumulativeValue,
   selfPercent |-> stats.selfPercent,
   cumulativePercent |-> stats.cumulativePercent,
   sampleCount |-> stats.sampleCount,
   type |-> "self",
   callers |-> stats.callers,
   callees |-> stats.callees]

RECURSIVE SelectHotspots(_, _, _)
SelectHotspots(stats, threshold, n) ==
  IF n = 0 THEN <<>>
  ELSE LET rest == SelectHotspots(stats, threshold, n - 1)
       IN IF IsHotspot(stats[n], threshold)
          THEN Append(rest, ToHotspot(stats[n]))
          ELSE rest

\* Variant of identifyHotspots: the list is returned unsorted.
identifyHotspotsUnsorted(stats, threshold) ==
  SelectHotspots(stats, threshold, Len(stats))

\* hotspots.sort((a, b) => b.selfPercent - a.selfPercent)
identifyHotspots(stats, threshold) ==
  LET selected == SelectHotspots(stats, threshold, Len(stats))
  IN SortDesc(selected, [n \in DOMAIN selected |-> selected[n].selfPercent])

(***************************************************************************)
(* Critical path extractor: extractCriticalPaths.                          *)
(***************************************************************************)
PathNode(node) ==
  [name |-> node.name,
   selfPercent |-> node.selfPercent,
   cumulativePercent |-> node.cumulativePercent]

\* Array.from(node.children.values()).sort((a, b) => b.cumulativeValue -
\* a.cumulativeValue), as the paths of the children.
SortedChildren(tree, node) ==
  LET children == [c \in DOMAIN tree[node].children |->
                     Append(node, tree[node].children[c])]
  IN SortDesc(children,
              [c \in DOMAIN children |->
                 Rat(toNum(tree[children[c]].cumulativeValue), 1)])

\* if (child.cumulativePercent >= 5)
IsSignificant(child) == RatGeq(child.cumulativePercent, Rat(5, 1))

RECURSIVE traverse(_, _, _, _, _, _)
RECURSIVE TraverseOthers(_, _, _, _, _, _)
\* Variant of traverse: a leaf is recorded with its own cumulativePercent.
traverseOwnPercent(tree, paths, node, currentPath, cumulativePercent, maxPaths) ==
  LET newPath == Append(currentPath, PathNode(tree[node]))
      sortedChildren == SortedChildren(tree, node)
  IN IF Len(tree[node].children) = 0
     THEN Append(paths, [path |-> newPath,
                         cumulativePercent |-> tree[node].cumulativePercent])
     ELSE TraverseOthers(
            tree,
            traverse(tree, paths, sortedChildren[1], newPath,
                     cumulativePercent, maxPaths),
            sortedChildren, 2, newPath, maxPaths)

\* Lines 317-359; paths is the array the closure appends to.
traverse(tree, paths, node, currentPath, cumulativePercent, maxPaths) ==
  LET newPath == Append(currentPath, PathNode(tree[node]))
      sortedChildren == SortedChildren(tree, node)
  IN IF Len(tree[node].children) = 0
     THEN Append(paths, [path |-> newPath, cumulativePercent |-> cumulativePercent])
     ELSE TraverseOthers(
            tree,
            traverse(tree, paths, sortedChildren[1], newPath,
                     cumulativePercent, maxPaths),
            sortedChildren, 2, newPath, maxPaths)

\* Variant of TraverseOthers: the loop visits the hottest child again.
TraverseOthersHottestAgain(tree, paths, sortedChildren, i, newPath, maxPaths) ==
  IF i <= Len(sortedChildren) /\ Len(paths) < maxPaths * 2
  THEN TraverseOthers(
         tree,
         IF IsSignificant(tree[sortedChildren[1]])
         THEN traverse(tree, paths, sortedChildren[1], newPath,
                       tree[sortedChildren[1]].cumulativePercent, maxPaths)
         ELSE paths,
         sortedChildren, i + 1, newPath, maxPaths)
  ELSE paths

\* for (let i = 1; i < sortedChildren.length && paths.length < maxPaths * 2; i++)
TraverseOthers(tree, paths, sortedChildren, i, newPath, maxPaths) ==
  IF i <= Len(sortedChildren) /\ Len(paths) < maxPaths * 2
  THEN TraverseOthers(
         tree,
         IF IsSignificant(tree[sortedChildren[i]])
         THEN traverse(tree, paths, sortedChildren[i], newPath,
                       tree[sortedChildren[i]].cumulativePercent, maxPaths)
         ELSE paths,
         sortedChildren, i + 1, newPath, maxPaths)
  ELSE paths

\* for (const child of sortedRootChildren.slice(0, maxPaths)) traverse(...)
RECURSIVE TraverseRoots(_, _, _, _, _)
TraverseRoots(tree, paths, roots, n, maxPaths) ==
  IF n > Len(roots) \/ n > maxPaths THEN paths
  ELSE TraverseRoots(
         tree,
         traverse(tree, paths, roots[n], <<>>,
                  tree[roots[n]].cumulativePercent, maxPaths),
         roots, n + 1, maxPaths)

\* Lines 361-368: the array paths when the traversal of the root's children
\* has ended.
RecordedPaths(tree, maxPaths) ==
  TraverseRoots(tree, <<>>, SortedChildren(tree, RootPath), 1, maxPaths)

\* Variant of extractCriticalPaths: neither sorted nor truncated.
extractCriticalPathsRaw(tree, maxPaths) == RecordedPaths(tree, maxPaths)

\* paths.sort((a, b) => b.cumulativePercent - a.cumulativePercent), then
\* slice(0, maxPaths).
extractCriticalPaths(tree, maxPaths) ==
  LET recorded == RecordedPaths(tree, maxPaths)
      sorted == SortDesc(recorded,
                         [n \in DOMAIN recorded |-> recorded[n].cumulativePercent])
  IN SubSeq(sorted, 1, IF Len(sorted) < maxPaths THEN Len(sorted) ELSE maxPaths)

\* analyzeProfile: extractCriticalPaths(callTree, 5)
MaxPaths == 5

(***************************************************************************)
(* Profile type detection (index.ts 237-279), the primary column           *)
(* (analyzer.ts 379-404) and formatValue (analyzer.ts 409-434).            *)
(***************************************************************************)
\* An optional value (x | undefined) is the empty sequence or <<x>>;
\* OrElse(o, d) is o ?? d.
None == <<>>

Some(x) == <<x>>

OrElse(o, d) == IF o = None THEN d ELSE o[1]

\* String.prototype.toLowerCase on the strings of the alphabets: these are
\* the ones with an upper-case letter.
LowerCased ==
  {<<"CPU", "cpu">>, <<"Microseconds", "microseconds">>, <<"Bytes", "bytes">>}

toLowerCase(str) ==
  IF \E p \in LowerCased : p[1] = str
  THEN (CHOOSE p \in LowerCased : p[1] = str)[2]
  ELSE str

\* t.includes('object') on the strings of the alphabets.
IncludesObject(t) ==
  t \in {"live_objects", "alloc_objects", "inuse_objects", "objects"}

\* Array.prototype.includes
Includes(xs, x) == \E n \in DOMAIN xs : xs[n] = x

LowerTypes(p) ==
  [n \in DOMAIN p.sampleTypes |-> toLowerCase(p.sampleTypes[n].type)]

LowerUnits(p) ==
  [n \in DOMAIN p.sampleTypes |-> toLowerCase(p.sampleTypes[n].unit)]

\* Variant of detectProfileType: every rule on names before the rules on units.
detectProfileTypeNamesFirst(p) ==
  LET types == LowerTypes(p)
      units == LowerUnits(p)
  IN IF \E n \in DOMAIN types : types[n] \in {"cpu", "samples", "sample", "wall"}
     THEN "cpu"
     ELSE IF \E n \in DOMAIN types :
               types[n] \in {"alloc_objects", "alloc_space", "inuse_objects",
                             "inuse_space", "objects", "space"}
     THEN "heap"
     ELSE IF Includes(types, "contentions") \/ Includes(types, "delay")
     THEN "mutex"
     ELSE IF Includes(types, "goroutines") \/ Includes(types, "count")
     THEN "goroutine"
     ELSE IF Includes(units, "nanoseconds") \/ Includes(units, "microseconds")
     THEN "cpu"
     ELSE IF Includes(units, "bytes") /\ \E n \in DOMAIN types : IncludesObject(types[n])
     THEN "heap"
     ELSE "unknown"

detectProfileType(p) ==
  LET types == LowerTypes(p)
      units == LowerUnits(p)
  IN IF \/ Includes(types, "cpu")
        \/ Includes(types, "samples")
        \/ Includes(types, "sample")
        \/ Includes(types, "wall")
     THEN "cpu"
     ELSE IF \/ Includes(types, "alloc_objects")
             \/ Includes(types, "alloc_space")
             \/ Includes(types, "inuse_objects")
             \/ Includes(types, "inuse_space")
             \/ Includes(types, "objects")
             \/ Includes(types, "space")
     THEN "heap"
     ELSE IF Includes(units, "nanoseconds") \/ Includes(units, "microseconds")
     THEN "cpu"
     ELSE IF Includes(units, "bytes") /\ \E n \in DOMAIN types : IncludesObject(types[n])
     THEN "heap"
     ELSE IF Includes(types, "contentions") \/ Includes(types, "delay")
     THEN "mutex"
     ELSE IF Includes(types, "goroutines") \/ Includes(types, "count")
     THEN "goroutine"
     ELSE "unknown"

\* for (let i = 0; i < types.length; i++) if (t === ...) return i: the
\* 0-based index of the first kind whose lower-cased name is in names, or -1.
FirstIndex(types, names) ==
  IF \E n \in DOMAIN types : types[n] \in names
  THEN (CHOOSE n \in DOMAIN types :
          /\ types[n] \in names
          /\ \A m \in 1..(n - 1) : types[m] \notin names) - 1
  ELSE -1

\* Variant of getPrimarySampleTypeIndex: always the number of kinds.
getPrimarySampleTypeIndexLast(p, type) == Len(p.sampleTypes)

getPrimarySampleTypeIndex(p, type) ==
  LET types == LowerTypes(p)
      preferred == FirstIndex(types, {"samples", "cpu"})
      inuse == FirstIndex(types, {"inuse_space"})
      alloc == FirstIndex(types, {"alloc_space"})
  IN IF type = "cpu"
     THEN (IF preferred >= 0 THEN preferred ELSE 0)
     ELSE IF type = "heap"
     THEN (IF inuse >= 0 THEN inuse ELSE IF alloc >= 0 THEN alloc ELSE 0)
     ELSE 0

Giga == 1000000000

Mega == 1000000

Kilo == 1000

Pad2(n) == IF n < 10 THEN "0" \o ToString(n) ELSE ToString(n)

\* (num / scale).toFixed(2) for 0 <= scale <= num: the quotient rounded to
\* the nearest hundredth.  (No value of the alphabet lies midway between two
\* hundredths, where the binary representation of the quotient decides.)
toFixed2(num, scale) ==
  LET cent == scale \div 100
      rest == num % scale
      hundredths == (num \div scale) * 100 + rest \div cent
                      + (IF 2 * (rest % cent) >= cent THEN 1 ELSE 0)
  IN ToString(hundredths \div 100) \o "." \o Pad2(hundredths % 100)

\* Variant of formatValue's scale choice with exclusive lower bounds.
AtLeastStrict(num, scale) == num > scale

\* num >= 1e9, num >= 1e6, num >= 1e3
AtLeast(num, scale) == num >= scale

formatValue(value, unit) ==
  LET num == toNum(value)
      lowerUnit == toLowerCase(unit)
  IN IF lowerUnit = "nanoseconds" \/ lowerUnit = "ns"
     THEN IF AtLeast(num, Giga) THEN toFixed2(num, Giga) \o "s"
          ELSE IF AtLeast(num, Mega) THEN toFixed2(num, Mega) \o "ms"
          ELSE IF AtLeast(num, Kilo) THEN toFixed2(num, Kilo) \o "µs"
          ELSE ToString(num) \o "ns"
     ELSE IF lowerUnit = "bytes"
     THEN IF AtLeast(num, Giga) THEN toFixed2(num, Giga) \o " GB"
          ELSE IF AtLeast(num, Mega) THEN toFixed2(num, Mega) \o " MB"
          ELSE IF AtLeast(num, Kilo) THEN toFixed2(num, Kilo) \o " KB"
          ELSE ToString(num) \o " B"
     ELSE IF lowerUnit = "count" \/ lowerUnit = "samples"
     THEN IF AtLeast(num, Mega) THEN toFixed2(num, Mega) \o "M"
          ELSE IF AtLeast(num, Kilo) THEN toFixed2(num, Kilo) \o "K"
          ELSE ToString(num)
     ELSE ToString(num) \o " " \o unit

(***************************************************************************)
(* The formatters (formatter/index.ts 18-35): of the text they build, the  *)
(* model keeps which formatter built it and, for formatDetailed, the       *)
(* "Total Value" line.                                                     *)
(***************************************************************************)
NoOutput == [kind |-> "none"]

\* formatCriticalPath (summary.ts 104-110) and the same expression of
\* formatAdaptive: path.path.slice(1).map(node => node.name), the names that
\* are joined into the line, with the line's number and percentage (the
\* percentage is kept as the fraction, its toFixed(1) text is not built).
formatCriticalPath(index, path) ==
  [index |-> index,
   cumulativePercent |-> path.cumulativePercent,
   names |-> [j \in 1..(Len(path.path) - 1) |-> path.path[j + 1].name]]

\* for (let i = 0; i < Math.min(analysis.criticalPaths.length, maxPaths); i++)
CriticalPathLines(analysis, maxPaths) ==
  [i \in 1..(IF Len(analysis.criticalPaths) < maxPaths
              THEN Len(analysis.criticalPaths) ELSE maxPaths) |->
     formatCriticalPath(i, analysis.criticalPaths[i])]

\* The text of a formatter is kept as the record of the parts the
\* properties are about: the formatter, the total as formatValue wrote it
\* (formatDetailed only) and the lines of the critical-paths section
\* (formatSummary: maxPaths = 5 by default; formatAdaptive: at most 3;
\* formatDetailed has no such section).
formatSummary(analysis, type) ==
  [kind |-> "text", formatter |-> "formatSummary", totalValue |-> None,
   criticalPaths |-> CriticalPathLines(analysis, 5)]

formatDetailed(analysis, type) ==
  [kind |-> "text", formatter |-> "formatDetailed",
   totalValue |-> Some(formatValue(analysis.totalValue, analysis.sampleType.unit)),
   criticalPaths |-> <<>>]

formatAdaptive(analysis, type) ==
  [kind |-> "text", formatter |-> "formatAdaptive", totalValue |-> None,
   criticalPaths |-> CriticalPathLines(analysis, 3)]

format(analysis, type, level) ==
  IF level = "summary" THEN formatSummary(analysis, type)
  ELSE IF level = "detailed" THEN formatDetailed(analysis, type)
  ELSE formatAdaptive(analysis, type)

(***************************************************************************)
(* The calls: analyzeProfile(profile, options), convert(input, options)    *)
(* and the command line of cli.ts.                                         *)
(***************************************************************************)
\* Typed profiles: 0..MaxKinds measurement kinds of KindAlphabet, no sample.
KindAlphabet ==
  { [type |-> "samples", unit |-> "count"],
    [type |-> "cpu", unit |-> "nanoseconds"],
    [type |-> "wall", unit |-> "nanoseconds"],
    [type |-> "CPU", unit |-> "count"],
    [type |-> "inuse_space", unit |-> "bytes"],
    [type |-> "alloc_space", unit |-> "bytes"],
    [type |-> "delay", unit |-> "nanoseconds"],
    [type |-> "latency", unit |-> "Microseconds"],
    [type |-> "custom", unit |-> "bytes"],
    [type |-> "live_objects", unit |-> "count"],
    [type |-> "contentions", unit |-> "count"],
    [type |-> "goroutines", unit |-> "count"],
    [type |-> "events", unit |-> "events"] }

TypedProfiles ==
  [sampleTypes : SeqsUpTo(KindAlphabet, MaxKinds), samples : {<<>>}]

\* Unit profiles: one kind with a unit of Units and one sample of the frame A
\* with a value of FormatValues.
Units == {"nanoseconds", "ns", "bytes", "Bytes", "count", "samples", "seconds"}

FormatValues ==
  {-1500, 150, 999, 1000, 1500, 999999, 1000000, 1500000, 999999999,
   1000000000, 1500000000}

UnitProfiles ==
  {[sampleTypes |-> <<[type |-> "value", unit |-> u]>>,
    samples |-> <<PlainSample(<<"A">>, v)>>] : u \in Units, v \in FormatValues}

FormatLevels == {"summary", "detailed", "adaptive"}

NoOptions == [format |-> None, profileType |-> None, sampleTypeIndex |-> None]

NoArgv == [format |-> None, type |-> None]

AnalyzeCalls ==
  {[entry |-> "analyzeProfile", profile |-> in[1], index |-> in[2],
    options |-> NoOptions, argv |-> NoArgv] : in \in Inputs}

\* convert(input, options): options.format, options.profileType and
\* options.sampleTypeIndex are optional.
ConvertOptions ==
  [format : {None}, profileType : {None, Some("cpu"), Some("heap")},
   sampleTypeIndex : {None, Some(1)}]
    \cup [format : {None} \cup {Some(l) : l \in FormatLevels},
          profileType : {None}, sampleTypeIndex : {None}]

ConvertCalls ==
  {[entry |-> "convert", profile |-> p, index |-> 0, options |-> o,
    argv |-> NoArgv] :
     p \in TypedProfiles, o \in {x \in ConvertOptions : x.format = None}}
    \cup
  {[entry |-> "convert", profile |-> p, index |-> 0, options |-> o,
    argv |-> NoArgv] :
     p \in UnitProfiles, o \in {x \in ConvertOptions : x.profileType = None}}

\* Rendered profiles: the chain profiles whose samples all have the value
\* RenderedValue, converted in every format level.
RenderedProfiles ==
  {[sampleTypes |-> OneKind, samples |-> ChainSamples(choice, Len(ChainStacks))] :
     choice \in [DOMAIN ChainStacks -> {0, RenderedValue}]}

RenderedCalls ==
  {[entry |-> "convert", profile |-> p, index |-> 0,
    options |-> [format |-> Some(l), profileType |-> None, sampleTypeIndex |-> None],
    argv |-> NoArgv] : p \in RenderedProfiles, l \in FormatLevels}

\* The command line: --format and --type are optional and may be invalid;
\* the profile file exists.
Argvs ==
  [format : {None} \cup {Some(l) : l \in FormatLevels \cup {"xml"}},
   type : {None, Some("auto"), Some("heap"), Some("thread")}]

CliProfiles ==
  {[sampleTypes |-> <<>>, samples |-> <<>>],
   [sampleTypes |-> <<[type |-> "value", unit |-> "nanoseconds"]>>,
    samples |-> <<PlainSample(<<"A">>, 1500)>>]}

CliCalls ==
  {[entry |-> "cli", profile |-> p, index |-> 0, options |-> NoOptions,
    argv |-> a] : p \in CliProfiles, a \in Argvs}

Calls == AnalyzeCalls \cup ConvertCalls \cup RenderedCalls \cup CliCalls

\* The two passes are not running independently.
ParIdle == [agg |-> "idle", tree |-> "idle", pos |-> 1]

(***************************************************************************)
(* analyzeProfile, step by step.                                           *)
(***************************************************************************)
\* options.hotspotThreshold: absent, 0 or 0.5.
Undefined == [num |-> 0, den |-> 0]

ThresholdOptions == {Undefined, Rat(0, 1), Rat(1, 2)}

\* Line 39: hotspotThreshold = 0.01 when the option is absent.
DefaultThreshold == Rat(1, 100)

ThresholdOf(option) == IF option = Undefined THEN DefaultThreshold ELSE option

NoResult == [kind |-> "none"]

\* Variant of NoSampleType: only the upper end of the range is checked.
NoSampleTypeAbove(p, index) == index + 1 > Len(p.sampleTypes)

\* profile.sampleTypes[sampleTypeIndex] is undefined
NoSampleType(p, index) == index + 1 \notin DOMAIN p.sampleTypes

Samples == profile.samples

Init ==
  /\ \E call \in Calls :
       /\ entry = call.entry
       /\ profile = call.profile
       /\ sampleTypeIndex = call.index
       /\ options = call.options
       /\ argv = call.argv
  /\ pc = (IF entry = "analyzeProfile" THEN "start" ELSE "idle")
  /\ cpc = (IF entry = "analyzeProfile" THEN "none"
            ELSE IF entry = "convert" THEN "convert" ELSE "main")
  /\ profileType = None
  /\ output = NoOutput
  /\ par = ParIdle
  /\ hotspotThreshold = Undefined
  /\ pos = 1
  /\ totalValue = 0
  /\ functionStats = <<>>
  /\ callTree = EmptyTree
  /\ hotspots = <<>>
  /\ recordedPaths = <<>>
  /\ criticalPaths = <<>>
  /\ result = NoResult
  /\ samplesRead = 0

\* Lines 41-44, the index is out of range: throw.
ThrowInvalidIndex ==
  /\ pc = "start"
  /\ NoSampleType(profile, sampleTypeIndex)
  /\ result' = [kind |-> "thrown", message |-> "Sample type index not found"]
  /\ pc' = "done"
  /\ UNCHANGED << frontVars, par, recordedPaths >>
  /\ UNCHANGED << profile, sampleTypeIndex, hotspotThreshold, pos, totalValue,
                  functionStats, callTree, hotspots, criticalPaths, samplesRead >>

\* Lines 41-44, the index is in range.
AcceptIndex ==
  /\ pc = "start"
  /\ ~NoSampleType(profile, sampleTypeIndex)
  /\ pc' = "total"
  /\ UNCHANGED << frontVars, par, recordedPaths >>
  /\ UNCHANGED << profile, sampleTypeIndex, hotspotThreshold, pos, totalValue,
                  functionStats, callTree, hotspots, criticalPaths, result,
                  samplesRead >>

\* Lines 46-66, the total is zero: the degenerate result.
ReturnDegenerate ==
  /\ pc = "total"
  /\ toNum(SumColumn(Samples, sampleTypeIndex, Len(Samples))) = 0
  /\ samplesRead' = samplesRead + Len(Samples)
  /\ result' = [kind |-> "returned",
                sampleType |-> profile.sampleTypes[sampleTypeIndex + 1],
                totalValue |-> 0,
                totalSamples |-> Len(Samples),
                functionStats |-> <<>>,
                callTree |-> (RootPath :> createEmptyNode("(root)")),
                hotspots |-> <<>>,
                criticalPaths |-> <<>>]
  /\ pc' = "done"
  /\ UNCHANGED << frontVars, par, recordedPaths >>
  /\ UNCHANGED << profile, sampleTypeIndex, hotspotThreshold, pos, totalValue,
                  functionStats, callTree, hotspots, criticalPaths >>

\* Variant of ComputeTotal: no zero-total check before the aggregator.
ComputeTotalUnguarded ==
  /\ pc = "total"
  /\ totalValue' = SumColumn(Samples, sampleTypeIndex, Len(Samples))
  /\ samplesRead' = samplesRead + Len(Samples)
  /\ functionStats' = <<>>
  /\ pos' = 1
  /\ pc' = "aggregate"
  /\ UNCHANGED << frontVars, par, recordedPaths >>
  /\ UNCHANGED << profile, sampleTypeIndex, hotspotThreshold, callTree,
                  hotspots, criticalPaths, result >>

\* Lines 46-53, the total is not zero: aggregateFunctionStats starts.
ComputeTotal ==
  /\ pc = "total"
  /\ toNum(SumColumn(Samples, sampleTypeIndex, Len(Samples))) # 0
  /\ totalValue' = SumColumn(Samples, sampleTypeIndex, Len(Samples))
  /\ samplesRead' = samplesRead + Len(Samples)
  /\ functionStats' = <<>>
  /\ pos' = 1
  /\ pc' = "aggregate"
  /\ UNCHANGED << frontVars, par, recordedPaths >>
  /\ UNCHANGED << profile, sampleTypeIndex, hotspotThreshold, callTree,
                  hotspots, criticalPaths, result >>

\* One iteration of the loop of lines 133-176.
AggregateNextSample ==
  /\ pc = "aggregate"
  /\ pos <= Len(Samples)
  /\ functionStats' = AggregateSample(functionStats, Samples[pos], sampleTypeIndex)
  /\ pos' = pos + 1
  /\ samplesRead' = samplesRead + 1
  /\ UNCHANGED << frontVars, par, recordedPaths >>
  /\ UNCHANGED << profile, sampleTypeIndex, hotspotThreshold, pc, totalValue,
                  callTree, hotspots, criticalPaths, result >>

\* Lines 178-186 and 197-199: the aggregator's percentages, then
\* buildCallTree starts with the seeded root.
FinishAggregate ==
  /\ pc = "aggregate"
  /\ pos > Len(Samples)
  /\ functionStats' = StatsPercentages(functionStats, totalValue)
  /\ callTree' = SeedRoot(totalValue)
  /\ pos' = 1
  /\ pc' = "tree"
  /\ UNCHANGED << frontVars, par, recordedPaths >>
  /\ UNCHANGED << profile, sampleTypeIndex, hotspotThreshold, totalValue,
                  hotspots, criticalPaths, result, samplesRead >>

\* Variant of TreeNextSample: the stack of the sample is reversed in place
\* (sample.stack.reverse()) before it is walked.
TreeNextSampleReversing ==
  /\ pc = "tree"
  /\ pos <= Len(Samples)
  /\ callTree' = TreeSample(callTree, Samples[pos], sampleTypeIndex)
  /\ profile' =
       [profile EXCEPT !.samples[pos].stack =
          [i \in DOMAIN @ |-> @[Len(@) + 1 - i]]]
  /\ pos' = pos + 1
  /\ samplesRead' = samplesRead + 1
  /\ UNCHANGED << frontVars, par, recordedPaths >>
  /\ UNCHANGED << sampleTypeIndex, hotspotThreshold, pc, totalValue,
                  functionStats, hotspots, criticalPaths, result >>

\* One iteration of the loop of lines 201-239.
TreeNextSample ==
  /\ pc = "tree"
  /\ pos <= Len(Samples)
  /\ callTree' = TreeSample(callTree, Samples[pos], sampleTypeIndex)
  /\ pos' = pos + 1
  /\ samplesRead' = samplesRead + 1
  /\ UNCHANGED << frontVars, par, recordedPaths >>
  /\ UNCHANGED << profile, sampleTypeIndex, hotspotThreshold, pc, totalValue,
                  functionStats, hotspots, criticalPaths, result >>

\* Lines 241-244.
FinishTree ==
  /\ pc = "tree"
  /\ pos > Len(Samples)
  /\ callTree' = calculateTreePercentages(callTree, RootPath, totalValue)
  /\ pc' = "hotspots"
  /\ UNCHANGED << frontVars, par, recordedPaths >>
  /\ UNCHANGED << profile, sampleTypeIndex, hotspotThreshold, pos, totalValue,
                  functionStats, hotspots, criticalPaths, result, samplesRead >>

\* Line 79.  The option is drawn here, where analyzeProfile first uses it;
\* main() of cli.ts never passes one.
IdentifyHotspots ==
  /\ pc = "hotspots"
  /\ \E option \in ThresholdOptions :
       /\ entry = "cli" => option = Undefined
       /\ hotspotThreshold' = option
       /\ hotspots' = identifyHotspots(functionStats, ThresholdOf(option))
  /\ pc' = "paths"
  /\ UNCHANGED << frontVars, par, recordedPaths >>
  /\ UNCHANGED << profile, sampleTypeIndex, pos, totalValue, functionStats,
                  callTree, criticalPaths, result, samplesRead >>

\* Line 82.
ExtractCriticalPaths ==
  /\ pc = "paths"
  /\ recordedPaths' = RecordedPaths(callTree, MaxPaths)
  /\ criticalPaths' = extractCriticalPaths(callTree, MaxPaths)
  /\ pc' = "return"
  /\ UNCHANGED << frontVars, par >>
  /\ UNCHANGED << profile, sampleTypeIndex, hotspotThreshold, pos, totalValue,
                  functionStats, callTree, hotspots, result, samplesRead >>

\* Lines 84-95.
Return ==
  /\ pc = "return"
  /\ result' = [kind |-> "returned",
                sampleType |-> profile.sampleTypes[sampleTypeIndex + 1],
                totalValue |-> totalValue,
                totalSamples |-> Len(Samples),
                functionStats |-> functionStats,
                callTree |-> callTree,
                hotspots |-> hotspots,
                criticalPaths |-> criticalPaths]
  /\ pc' = "done"
  /\ UNCHANGED << frontVars, par, recordedPaths >>
  /\ UNCHANGED << profile, sampleTypeIndex, hotspotThreshold, pos, totalValue,
                  functionStats, callTree, hotspots, criticalPaths, samplesRead >>

(***************************************************************************)
(* main() of cli.ts and convert() of index.ts.                             *)
(***************************************************************************)
\* parseArgs: format defaults to 'adaptive', type to 'auto'.
CliFormat == OrElse(argv.format, "adaptive")

CliType == OrElse(argv.type, "auto")

CliValid ==
  /\ CliFormat \in {"summary", "detailed", "adaptive"}
  /\ CliType = "auto" \/ CliType \in {"cpu", "heap", "mutex", "goroutine"}

\* cli.ts 82-99: an invalid --format or --type ends the process with code 1.
CliReject ==
  /\ cpc = "main"
  /\ ~CliValid
  /\ output' = [kind |-> "error",
                message |-> IF CliFormat \notin {"summary", "detailed", "adaptive"}
                            THEN "Error: Invalid format: " \o CliFormat
                            ELSE "Error: Invalid profile type: " \o CliType]
  /\ cpc' = "exit"
  /\ UNCHANGED << analysisVars, par, entry, argv, options, profileType >>

\* cli.ts 82-110: the call of convert with the validated options.
CliConvert ==
  /\ cpc = "main"
  /\ CliValid
  /\ options' = [format |-> Some(CliFormat),
                 profileType |-> IF CliType = "auto" THEN None ELSE Some(CliType),
                 sampleTypeIndex |-> None]
  /\ cpc' = "convert"
  /\ UNCHANGED << analysisVars, par, entry, argv, profileType, output >>

\* index.ts 47-67: the profile type and the column, then analyzeProfile
\* is called.
Convert ==
  /\ cpc = "convert"
  /\ LET type == OrElse(options.profileType, detectProfileType(profile))
     IN /\ profileType' = Some(type)
        /\ sampleTypeIndex' =
             OrElse(options.sampleTypeIndex, getPrimarySampleTypeIndex(profile, type))
  /\ pc' = "start"
  /\ cpc' = "analyze"
  /\ UNCHANGED << profile, hotspotThreshold, pos, totalValue, functionStats,
                  callTree, hotspots, recordedPaths, criticalPaths, result,
                  samplesRead, par, entry, argv, options, output >>

\* index.ts 48 and 70: analyzeProfile has returned, the text is built in the
\* level of options.format, 'summary' by default.
Format ==
  /\ cpc = "analyze"
  /\ pc = "done"
  /\ result.kind = "returned"
  /\ output' = format(result, profileType[1], OrElse(options.format, "summary"))
  /\ cpc' = "end"
  /\ UNCHANGED << analysisVars, par, entry, argv, options, profileType >>

\* analyzeProfile has thrown: convert() throws too, and main() (cli.ts
\* 117-120) prints the message and ends the process with code 1.
Propagate ==
  /\ cpc = "analyze"
  /\ pc = "done"
  /\ result.kind = "thrown"
  /\ IF entry = "cli"
     THEN /\ output' = [kind |-> "error", message |-> "Error: " \o result.message]
          /\ cpc' = "exit"
     ELSE /\ output' = output
          /\ cpc' = "thrown"
  /\ UNCHANGED << analysisVars, par, entry, argv, options, profileType >>

Next ==
  \/ CliReject
  \/ CliConvert
  \/ Convert
  \/ Format
  \/ Propagate
  \/ ThrowInvalidIndex
  \/ AcceptIndex
  \/ ReturnDegenerate
  \/ ComputeTotal
  \/ AggregateNextSample
  \/ FinishAggregate
  \/ TreeNextSample
  \/ FinishTree
  \/ IdentifyHotspots
  \/ ExtractCriticalPaths
  \/ Return

Spec == Init /\ [][Next]_vars

(***************************************************************************)
(* analyzeProfile with its two passes run independently: after the total,  *)
(* aggregateFunctionStats (lines 68-73) and buildCallTree (line 76) each   *)
(* advance through the samples at their own pace, in any interleaving; the *)
(* ranker starts when both have finished.  The steps are those of the      *)
(* sequential call; par holds the tree builder's position and which pass   *)
(* has finished.                                                           *)
(***************************************************************************)
ParInit == Init /\ entry = "analyzeProfile"

\* Lines 46-53, the total is not zero: both passes start.
ParFork ==
  /\ pc = "total"
  /\ toNum(SumColumn(Samples, sampleTypeIndex, Len(Samples))) # 0
  /\ totalValue' = SumColumn(Samples, sampleTypeIndex, Len(Samples))
  /\ samplesRead' = samplesRead + Len(Samples)
  /\ functionStats' = <<>>
  /\ callTree' = SeedRoot(totalValue')
  /\ pos' = 1
  /\ par' = [agg |-> "run", tree |-> "run", pos |-> 1]
  /\ pc' = "fork"
  /\ UNCHANGED << frontVars, recordedPaths >>
  /\ UNCHANGED << profile, sampleTypeIndex, hotspotThreshold, hotspots,
                  criticalPaths, result >>

\* One iteration of the loop of lines 133-176.
ParAggregateStep ==
  /\ pc = "fork"
  /\ par.agg = "run"
  /\ pos <= Len(Samples)
  /\ functionStats' = AggregateSample(functionStats, Samples[pos], sampleTypeIndex)
  /\ pos' = pos + 1
  /\ samplesRead' = samplesRead + 1
  /\ UNCHANGED << frontVars, par, recordedPaths >>
  /\ UNCHANGED << profile, sampleTypeIndex, hotspotThreshold, pc, totalValue,
                  callTree, hotspots, criticalPaths, result >>

\* Lines 178-186.
ParAggregateFinish ==
  /\ pc = "fork"
  /\ par.agg = "run"
  /\ pos > Len(Samples)
  /\ functionStats' = StatsPercentages(functionStats, totalValue)
  /\ par' = [par EXCEPT !.agg = "done"]
  /\ UNCHANGED << frontVars, recordedPaths >>
  /\ UNCHANGED << profile, sampleTypeIndex, hotspotThreshold, pc, pos,
                  totalValue, callTree, hotspots, criticalPaths, result,
                  samplesRead >>

\* One iteration of the loop of lines 201-239.
ParTreeStep ==
  /\ pc = "fork"
  /\ par.tree = "run"
  /\ par.pos <= Len(Samples)
  /\ callTree' = TreeSample(callTree, Samples[par.pos], sampleTypeIndex)
  /\ par' = [par EXCEPT !.pos = @ + 1]
  /\ samplesRead' = samplesRead + 1
  /\ UNCHANGED << frontVars, recordedPaths >>
  /\ UNCHANGED << profile, sampleTypeIndex, hotspotThreshold, pc, pos,
                  totalValue, functionStats, hotspots, criticalPaths, result >>

\* Lines 241-244.
ParTreeFinish ==
  /\ pc = "fork"
  /\ par.tree = "run"
  /\ par.pos > Len(Samples)
  /\ callTree' = calculateTreePercentages(callTree, RootPath, totalValue)
  /\ par' = [par EXCEPT !.tree = "done"]
  /\ UNCHANGED << frontVars, recordedPaths >>
  /\ UNCHANGED << profile, sampleTypeIndex, hotspotThreshold, pc, pos,
                  totalValue, functionStats, hotspots, criticalPaths, result,
                  samplesRead >>

\* Both passes have finished: the ranker (line 79) may start.
ParJoin ==
  /\ pc = "fork"
  /\ par.agg = "done"
  /\ par.tree = "done"
  /\ pc' = "hotspots"
  /\ UNCHANGED << frontVars, par, recordedPaths >>
  /\ UNCHANGED << profile, sampleTypeIndex, hotspotThreshold, pos, totalValue,
                  functionStats, callTree, hotspots, criticalPaths, result,
                  samplesRead >>

ParNext ==
  \/ ThrowInvalidIndex
  \/ AcceptIndex
  \/ ReturnDegenerate
  \/ ParFork
  \/ ParAggregateStep
  \/ ParAggregateFinish
  \/ ParTreeStep
  \/ ParTreeFinish
  \/ ParJoin
  \/ IdentifyHotspots
  \/ ExtractCriticalPaths
  \/ Return

ParSpec == ParInit /\ [][ParNext]_vars

(***************************************************************************)
(* Properties.                                                             *)
(***************************************************************************)
Returned == result.kind = "returned"

Thrown == result.kind = "thrown"

Root(tree) == tree[RootPath]

\* The index denotes an existing measurement kind.
InRange == sampleTypeIndex \in 0..(Len(profile.sampleTypes) - 1)

\* The selected value of sample n, a missing value counting as 0.
Selected(n) ==
  IF sampleTypeIndex \in 0..(Len(Samples[n].values) - 1)
  THEN Samples[n].values[sampleTypeIndex + 1]
  ELSE 0

NonNegativeValues == \A n \in DOMAIN Samples : Selected(n) >= 0

RECURSIVE SumOver(_, _)
\* Sum of f over the finite set S of its domain.
SumOver(f, S) ==
  IF S = {} THEN 0
  ELSE LET x == CHOOSE y \in S : TRUE IN f[x] + SumOver(f, S \ {x})

ColumnTotal == SumOver([n \in DOMAIN Samples |-> Selected(n)], DOMAIN Samples)

\* C1 (refuted by the code): conservation.  In every returned result the sum
\* of selfValue over all FunctionStats rows is at most totalValue.  Stated
\* here for the profiles without negative values, which the claim includes.
C1_Conservation ==
  (Returned /\ NonNegativeValues) =>
    SumOver([n \in DOMAIN result.functionStats |->
               result.functionStats[n].selfValue],
            DOMAIN result.functionStats) <= result.totalValue

\* C2 as claimed: the root of every returned result, the degenerate one
\* included, has cumulativeValue = totalValue and cumulativePercent = 100.
C2_RootAlwaysHundred ==
  Returned =>
    /\ Root(result.callTree).cumulativeValue = result.totalValue
    /\ Root(result.callTree).cumulativePercent = Rat(100, 1)

\* C2 (amended): the root of every returned result has cumulativeValue =
\* totalValue; its cumulativePercent is 100 when totalValue is not zero and
\* 0 in the degenerate zero-total result.
C2_RootSeeded ==
  Returned =>
    /\ Root(result.callTree).cumulativeValue = result.totalValue
    /\ result.totalValue # 0 =>
         Root(result.callTree).cumulativePercent = Rat(100, 1)
    /\ result.totalValue = 0 =>
         Root(result.callTree).cumulativePercent = Rat(0, 1)

\* Sum of the cumulativeValue of the root's children.
RootChildrenSum(tree) ==
  SumOver([c \in DOMAIN Root(tree).children |->
             tree[<<Root(tree).children[c]>>].cumulativeValue],
          DOMAIN Root(tree).children)

\* C2 witness: a non-degenerate result whose root has children that do not
\* sum to the root's value.
C2_Witness ==
  /\ Returned
  /\ result.totalValue # 0
  /\ Len(Root(result.callTree).children) > 0
  /\ RootChildrenSum(result.callTree) # result.totalValue

\* The degenerate AnalysisResult.
IsDegenerate(r) ==
  /\ r.kind = "returned"
  /\ r.totalValue = 0
  /\ r.totalSamples = Len(Samples)
  /\ r.functionStats = <<>>
  /\ DOMAIN r.callTree = {RootPath}
  /\ Root(r.callTree).children = <<>>
  /\ Root(r.callTree).selfValue = 0
  /\ r.hotspots = <<>>
  /\ r.criticalPaths = <<>>

\* C3: with an in-range index, a profile without samples or whose selected
\* column sums to zero ends with the degenerate result and no error, and the
\* aggregator, the tree builder, the ranker and the extractor (all
\* percentage computations) only ever run with a non-zero total.
C3_DegenerateInput ==
  /\ (pc = "done" /\ InRange /\ ColumnTotal = 0) => IsDegenerate(result)
  /\ (InRange /\ ColumnTotal = 0) =>
       pc \notin {"aggregate", "tree", "hotspots", "paths", "return"}
  /\ pc \in {"aggregate", "tree", "hotspots", "paths", "return"} =>
       toNum(totalValue) # 0

\* C3 witness: the degenerate result of a profile whose samples are not
\* zero but cancel.
C3_Witness ==
  /\ pc = "done"
  /\ IsDegenerate(result)
  /\ \E n \in DOMAIN Samples : Selected(n) # 0

\* C4: the call ends with the invalid-index error exactly when the index is
\* out of range; the error is raised before any sample is read, the call
\* never goes past the check with an out-of-range index, and with an
\* in-range index the call ends with a returned result and no error.
C4_InvalidIndex ==
  /\ pc = "done" => (Thrown <=> ~InRange)
  /\ pc = "done" => (Returned <=> InRange)
  /\ Thrown => (samplesRead = 0 /\ pc = "done")
  /\ (pc \notin {"idle", "start"} /\ ~InRange) => Thrown
  /\ pc # "done" => (~Thrown /\ ~Returned)

\* C4 witness: the default index 0 on a profile without measurement kinds.
C4_Witness ==
  /\ Thrown
  /\ sampleTypeIndex = 0
  /\ Len(profile.sampleTypes) = 0
  /\ Len(Samples) > 0

\* Number of samples the aggregator has processed into functionStats.
Aggregated ==
  IF pc = "aggregate" THEN pos - 1
  ELSE IF pc \in {"tree", "hotspots", "paths", "return"} THEN Len(Samples)
  ELSE IF pc = "done" /\ Returned /\ result.totalValue # 0 THEN Len(Samples)
  ELSE 0

FrameKey(frame) == KeyOf(frame.function, frame.line)

\* Number of Frames with the given key in the Location at position i of
\* sample n (0 when the stack is shorter).
FramesAt(n, i, key) ==
  IF i \in DOMAIN Samples[n].stack
  THEN Cardinality({j \in DOMAIN Samples[n].stack[i].lines :
                      FrameKey(Samples[n].stack[i].lines[j]) = key})
  ELSE 0

\* The key occurs somewhere in the stack of sample n.
OccursIn(n, key) == \E i \in DOMAIN Samples[n].stack : FramesAt(n, i, key) > 0

\* The row with the given key (the key must have a row).
RowOf(stats, key) == stats[KeyIndex(stats, key)]

HasRow(stats, key) == KeyIndex(stats, key) # 0

OneSample(stack, value) == <<[stack |-> stack, values |-> <<value>>]>>

Loc(n) == Location(<<LineInfo(n, 1)>>)

\* C5: self-time locality.  The selfValue of every row is the sum, over the
\* processed samples with a non-zero value, of the value times the number of
\* Frames with the row's key in the Location at stack index 0; a row whose
\* key occurs at no stack index 0 has selfValue 0.  For the one sample
\* [A, B, C] (A leaf) with value 100: selfValue 100 for A, 0 for B and C,
\* cumulativeValue 100 for all three.
C5_SelfTimeLocality ==
  /\ \A r \in DOMAIN functionStats :
       /\ functionStats[r].selfValue =
            SumOver([n \in 1..Aggregated |->
                       Selected(n) * FramesAt(n, 1, functionStats[r].key)],
                    1..Aggregated)
       /\ (\A n \in 1..Aggregated : FramesAt(n, 1, functionStats[r].key) = 0)
            => functionStats[r].selfValue = 0
  /\ (Returned /\ Samples = OneSample(<<Loc("A"), Loc("B"), Loc("C")>>, 100)) =>
       /\ Len(result.functionStats) = 3
       /\ HasRow(result.functionStats, "A@app.js:1")
       /\ HasRow(result.functionStats, "B@app.js:1")
       /\ HasRow(result.functionStats, "C@app.js:1")
       /\ RowOf(result.functionStats, "A@app.js:1").selfValue = 100
       /\ RowOf(result.functionStats, "B@app.js:1").selfValue = 0
       /\ RowOf(result.functionStats, "C@app.js:1").selfValue = 0
       /\ \A r \in 1..3 : result.functionStats[r].cumulativeValue = 100

\* C5 witness: the result for the one sample [A, B, C] with value 100.
C5_Witness ==
  /\ Returned
  /\ Samples = OneSample(<<Loc("A"), Loc("B"), Loc("C")>>, 100)
  /\ Len(result.functionStats) = 3

\* C6: recursion dedup.  The cumulativeValue of every row is the sum of the
\* values of the processed non-zero samples whose stack contains the row's
\* key (each sample once, however often the key occurs in it), and its
\* sampleCount is the number of those samples.  For the sample [A, A, B]
\* with value 50: cumulativeValue 50 and sampleCount 1 for A.
C6_RecursionDedup ==
  /\ \A r \in DOMAIN functionStats :
       LET key == functionStats[r].key
           with == {n \in 1..Aggregated : Selected(n) # 0 /\ OccursIn(n, key)}
       IN /\ functionStats[r].cumulativeValue =
               SumOver([n \in with |-> Selected(n)], with)
          /\ functionStats[r].sampleCount = Cardinality(with)
  /\ (Returned /\ Samples = OneSample(<<Loc("A"), Loc("A"), Loc("B")>>, 50)) =>
       /\ HasRow(result.functionStats, "A@app.js:1")
       /\ RowOf(result.functionStats, "A@app.js:1").cumulativeValue = 50
       /\ RowOf(result.functionStats, "A@app.js:1").sampleCount = 1

\* C6 witness: the result for the sample [A, A, B] with value 50.
C6_Witness ==
  /\ Returned
  /\ Samples = OneSample(<<Loc("A"), Loc("A"), Loc("B")>>, 50)
  /\ HasRow(result.functionStats, "A@app.js:1")

\* The Frames of the processed samples with a non-zero value.
FramesOf(n) ==
  UNION {Range(Samples[n].stack[i].lines) : i \in DOMAIN Samples[n].stack}

CreditedFrames ==
  UNION {FramesOf(n) : n \in {m \in 1..Aggregated : Selected(m) # 0}}

SameSite(row, frame) ==
  /\ row.name = frame.function.name
  /\ row.filename = frame.function.filename
  /\ row.line = frame.line

HasNode(tree, path) == path \in DOMAIN tree

\* The two samples of the tree example, with value 10 each.
TwoSamples(stack1, stack2) ==
  <<[stack |-> stack1, values |-> <<10>>], [stack |-> stack2, values |-> <<10>>]>>

\* The tree has exactly the root, the root child top with cumulativeValue
\* 20, and under it the two children left and right with 10 each.
ForkTree(tree, top, left, right) ==
  /\ DOMAIN tree = {RootPath, <<top>>, <<top, left>>, <<top, right>>}
  /\ tree[RootPath].children = <<top>>
  /\ tree[<<top>>].cumulativeValue = 20
  /\ Range(tree[<<top>>].children) = {left, right}
  /\ tree[<<top, left>>].cumulativeValue = 10
  /\ tree[<<top, right>>].cumulativeValue = 10

\* C8 as claimed (with C for X): the stacks [C, A] and [C, B] in Sample.stack
\* order (index 0 = leaf) give the root child C with 20 and its children A
\* and B with 10 each.
C8_ForkLeafFirst ==
  (Returned /\ Samples = TwoSamples(<<Loc("C"), Loc("A")>>, <<Loc("C"), Loc("B")>>))
    => ForkTree(result.callTree, "C@app.js:1", "A@app.js:1", "B@app.js:1")

\* C8 (amended, with C for X): the two samples with value 10 each whose call
\* chains, written from the outermost caller to the leaf, are C -> A and
\* C -> B (Sample.stack [A, C] and [B, C]) give the root child C with
\* cumulativeValue 20 and its children A and B with 10 each; the stacks
\* [C, A] and [C, B] in Sample.stack order give the root children A and B
\* with 10 each, each with the one child C with 10.
C8_TreeContextSensitivity ==
  /\ (Returned /\ Samples = TwoSamples(<<Loc("A"), Loc("C")>>, <<Loc("B"), Loc("C")>>))
       => ForkTree(result.callTree, "C@app.js:1", "A@app.js:1", "B@app.js:1")
  /\ (Returned /\ Samples = TwoSamples(<<Loc("C"), Loc("A")>>, <<Loc("C"), Loc("B")>>))
       => LET tree == result.callTree
              a == "A@app.js:1"
              b == "B@app.js:1"
              c == "C@app.js:1"
          IN /\ DOMAIN tree = {RootPath, <<a>>, <<a, c>>, <<b>>, <<b, c>>}
             /\ tree[RootPath].children = <<a, b>>
             /\ \A path \in DOMAIN tree \ {RootPath} : tree[path].cumulativeValue = 10

\* C8 witness: the result for the stacks [A, C] and [B, C].
C8_Witness ==
  /\ Returned
  /\ Samples = TwoSamples(<<Loc("A"), Loc("C")>>, <<Loc("B"), Loc("C")>>)
  /\ Len(Root(result.callTree).children) = 1

\* The ranker has run: hotspots is the list computed from functionStats.
Ranked ==
  \/ pc \in {"paths", "return"}
  \/ pc = "done" /\ Returned /\ result.totalValue # 0

\* Position of a hotspot's row in the iteration order of the functionStats Map.
RowIndex(h) == KeyIndex(functionStats, h.key)

\* C9: hotspot ordering.  Adjacent hotspots are in non-increasing order of
\* selfPercent, hotspots with equal selfPercent are in the insertion order of
\* their rows in the functionStats map, and the list is the returned one.
C9_HotspotOrdering ==
  /\ Ranked =>
       /\ \A i \in 1..(Len(hotspots) - 1) :
            RatGeq(hotspots[i].selfPercent, hotspots[i + 1].selfPercent)
       /\ \A i, j \in DOMAIN hotspots :
            (i < j /\ hotspots[i].selfPercent = hotspots[j].selfPercent)
              => RowIndex(hotspots[i]) < RowIndex(hotspots[j])
  /\ (Returned /\ result.totalValue # 0) =>
       (result.hotspots = hotspots /\ result.functionStats = functionStats)

\* C9 witness: a returned list of at least three hotspots with a strict
\* decrease and a tie, in an order other than the insertion order.
C9_Witness ==
  /\ Returned
  /\ Len(result.hotspots) >= 3
  /\ \E i \in 1..(Len(hotspots) - 1) :
       RatGt(hotspots[i].selfPercent, hotspots[i + 1].selfPercent)
  /\ \E i \in 1..(Len(hotspots) - 1) :
       hotspots[i].selfPercent = hotspots[i + 1].selfPercent
  /\ \E i, j \in DOMAIN hotspots : i < j /\ RowIndex(hotspots[i]) > RowIndex(hotspots[j])

\* threshold * 100 for the option the call was given: 1 for the default
\* 0.01 of an absent option.
GivenThresholdPercent ==
  IF hotspotThreshold = Undefined THEN Rat(1, 1)
  ELSE Rat(100 * hotspotThreshold.num, hotspotThreshold.den)

\* The hotspot of a row: the row's fields, the caller and callee sets as
\* lists.
Projection(row) ==
  [key |-> row.key, name |-> row.name, filename |-> row.filename,
   line |-> row.line, selfValue |-> row.selfValue,
   cumulativeValue |-> row.cumulativeValue, selfPercent |-> row.selfPercent,
   cumulativePercent |-> row.cumulativePercent,
   sampleCount |-> row.sampleCount, type |-> "self",
   callers |-> row.callers, callees |-> row.callees]

\* Exactly one hotspot for every row at or above the threshold, none for any
\* other row, each hotspot the unchanged projection of its row.
ExactSelection ==
  /\ \A r \in DOMAIN functionStats :
       Cardinality({i \in DOMAIN hotspots : hotspots[i].key = functionStats[r].key})
         = IF RatGeq(functionStats[r].selfPercent, GivenThresholdPercent)
           THEN 1 ELSE 0
  /\ \A i \in DOMAIN hotspots :
       /\ RowIndex(hotspots[i]) # 0
       /\ hotspots[i] = Projection(functionStats[RowIndex(hotspots[i])])

Sign(n) == IF n > 0 THEN 1 ELSE IF n < 0 THEN -1 ELSE 0

Parent(node) == SubSeq(node, 1, Len(node) - 1)

Prefix(node, j) == SubSeq(node, 1, j)

IsLeaf(tree, node) == Len(tree[node].children) = 0

\* node is the hottest child of its parent: no sibling has a larger
\* cumulativeValue, and none inserted before it has the same.
IsHottest(tree, node) ==
  LET siblings == tree[Parent(node)].children
      me == CHOOSE c \in DOMAIN siblings : siblings[c] = node[Len(node)]
      valueOf(c) == tree[Append(Parent(node), siblings[c])].cumulativeValue
  IN \A c \in DOMAIN siblings :
       \/ valueOf(c) < valueOf(me)
       \/ valueOf(c) = valueOf(me) /\ me <= c

\* The anchor of a node: its nearest ancestor-or-self that is a root child or
\* is not the hottest child of its parent.
Anchor(tree, node) ==
  LET IsAnchor(j) == j = 1 \/ ~IsHottest(tree, Prefix(node, j))
  IN Prefix(node, CHOOSE j \in DOMAIN node :
                    IsAnchor(j) /\ \A i \in (j + 1)..Len(node) : ~IsAnchor(i))

\* The PathNodes of a recorded path are those of the tree nodes from a root
\* child down to node.
IsPathTo(tree, node, path) ==
  /\ Len(path) = Len(node)
  /\ \A j \in DOMAIN path : path[j] = PathNode(tree[Prefix(node, j)])

Anchored(tree, recorded) ==
  \E node \in DOMAIN tree \ {RootPath} :
    /\ IsPathTo(tree, node, recorded.path)
    /\ IsLeaf(tree, node)
    /\ recorded.cumulativePercent = tree[Anchor(tree, node)].cumulativePercent
    /\ Len(Anchor(tree, node)) > 1 => IsSignificant(tree[Anchor(tree, node)])

NamedNode(name, self, cumulative) ==
  [name |-> name, selfPercent |-> Rat(self, 1), cumulativePercent |-> Rat(cumulative, 1)]

\* The root children P (70%, a leaf) and Q (30%) with its one child L.
PathExample ==
  Samples = <<PlainSample(<<"P">>, 70), PlainSample(<<"L", "Q">>, 30)>>

\* C11: every recorded path, and so every returned one, ends in a leaf and
\* carries the cumulativePercent of its anchor, the nearest node of the path
\* that is a root child or a non-hottest child (which then has a
\* cumulativePercent >= 5).  The samples [P] with 70 and [L, Q] with 30 give
\* the paths [P] with 70 and [Q, L] with 30.
C11_AnchorSemantics ==
  /\ \A n \in DOMAIN recordedPaths : Anchored(callTree, recordedPaths[n])
  /\ Returned =>
       /\ Range(result.criticalPaths) \subseteq Range(recordedPaths)
       /\ PathExample =>
            result.criticalPaths =
              << [path |-> <<NamedNode("P", 70, 70)>>, cumulativePercent |-> Rat(70, 1)],
                 [path |-> <<NamedNode("Q", 0, 30), NamedNode("L", 30, 30)>>,
                  cumulativePercent |-> Rat(30, 1)] >>

\* C11 witness: a returned path of three nodes that carries the percentage of
\* its middle node, which differs from those of its first node and its leaf.
C11_Witness ==
  /\ Returned
  /\ \E n \in DOMAIN result.criticalPaths :
       LET recorded == result.criticalPaths[n]
       IN /\ Len(recorded.path) = 3
          /\ recorded.cumulativePercent = recorded.path[2].cumulativePercent
          /\ recorded.cumulativePercent # recorded.path[1].cumulativePercent
          /\ recorded.cumulativePercent # recorded.path[3].cumulativePercent

\* C12: a returned result has at most maxPaths = 5 critical paths, in
\* non-increasing order of their recorded cumulativePercent.
C12_PathLimitAndOrder ==
  Returned =>
    /\ MaxPaths = 5
    /\ Len(result.criticalPaths) <= 5
    /\ \A n \in 1..(Len(result.criticalPaths) - 1) :
         RatGeq(result.criticalPaths[n].cumulativePercent,
                result.criticalPaths[n + 1].cumulativePercent)

\* C12 witness: more than five paths were recorded, not in descending order,
\* and five are returned.
C12_Witness ==
  /\ Returned
  /\ Len(recordedPaths) > 5
  /\ \E n \in 1..(Len(recordedPaths) - 1) :
       RatGt(recordedPaths[n + 1].cumulativePercent, recordedPaths[n].cumulativePercent)
  /\ Len(result.criticalPaths) = 5

\* C20 as claimed: the number of recorded paths never exceeds 2 * maxPaths.
C20_RecordedPathsCap == Len(recordedPaths) <= 2 * MaxPaths

(***************************************************************************)
(* The result record and the input.                                        *)
(***************************************************************************)
\* C17: in every returned result totalValue is the sum of
\* values[sampleTypeIndex] over all samples of the profile, a missing value
\* counting as 0, and totalSamples is the number of samples of the profile.
C17_Totals ==
  Returned =>
    /\ result.totalValue = ColumnTotal
    /\ result.totalSamples = Len(Samples)

\* C17 witness: a result for a column other than the first with a total that
\* is not zero, where one sample has no value in the column and one has the
\* value 0 in another column.
C17_Witness ==
  /\ Returned
  /\ sampleTypeIndex > 0
  /\ result.totalValue # 0
  /\ result.totalSamples = 2
  /\ \E n \in DOMAIN Samples : sampleTypeIndex + 1 \notin DOMAIN Samples[n].values
  /\ \E n \in DOMAIN Samples : Samples[n].values # <<>> /\ Samples[n].values[1] = 0

\* C19: no step of analyzeProfile changes the NormalizedProfile it was given,
\* whether the call ends with a normal result, the degenerate result or the
\* invalid-index error.
C19_InputUnchanged == [][profile' = profile]_vars

\* C19 witness: a normal result for a profile of two samples with stacks of
\* two Locations each.
C19_Witness ==
  /\ Returned
  /\ result.totalValue # 0
  /\ Len(Samples) = 2
  /\ \A n \in DOMAIN Samples : Len(Samples[n].stack) = 2

(***************************************************************************)
(* Profile type, primary column, formatValue, default format.              *)
(***************************************************************************)
ProfileTypes == {"cpu", "heap", "mutex", "goroutine", "unknown"}

\* The names of the alphabets that contain "object".
ObjectNames == {"live_objects", "alloc_objects", "inuse_objects", "objects"}

\* The first matching rule of the precedence, for the set of kind names and
\* the set of units of a profile.
FirstMatch(names, units) ==
  IF names \cap {"cpu", "samples", "sample", "wall"} # {} THEN "cpu"
  ELSE IF names \cap {"alloc_objects", "alloc_space", "inuse_objects",
                      "inuse_space", "objects", "space"} # {} THEN "heap"
  ELSE IF units \cap {"nanoseconds", "microseconds"} # {} THEN "cpu"
  ELSE IF "bytes" \in units /\ names \cap ObjectNames # {} THEN "heap"
  ELSE IF names \cap {"contentions", "delay"} # {} THEN "mutex"
  ELSE IF names \cap {"goroutines", "count"} # {} THEN "goroutine"
  ELSE "unknown"

KindNames == {profile.sampleTypes[n].type : n \in DOMAIN profile.sampleTypes}

KindUnits == {profile.sampleTypes[n].unit : n \in DOMAIN profile.sampleTypes}

\* convert() has detected the profile type (no explicit type was given).
Detected == entry # "analyzeProfile" /\ pc # "idle" /\ options.profileType = None

\* C13 as claimed: the detected type is the first matching rule for the kind
\* names and units as the profile has them.
C13_FirstMatchAsWritten ==
  Detected => profileType = Some(FirstMatch(KindNames, KindUnits))

\* C13 (amended): for every list of kinds, the empty one included,
\* detectProfileType returns a type, and it is the first matching rule for
\* the kind names and units converted to lower case.
C13_DetectProfileType ==
  Detected =>
    /\ profileType # None
    /\ profileType[1] \in ProfileTypes
    /\ profileType[1] =
         FirstMatch({toLowerCase(n) : n \in KindNames},
                    {toLowerCase(u) : u \in KindUnits})

\* C13 witness: the kind CPU (count) alone is detected as cpu.
C13_Witness ==
  /\ Detected
  /\ profile.sampleTypes = <<[type |-> "CPU", unit |-> "count"]>>
  /\ profileType = Some("cpu")

\* The 0-based index of the first kind whose name, after the conversion
\* lower, is in names; -1 when there is none.
FirstNamed(names, lower(_)) ==
  LET hits == {n \in DOMAIN profile.sampleTypes :
                 lower(profile.sampleTypes[n].type) \in names}
  IN IF hits = {} THEN -1
     ELSE (CHOOSE n \in hits : \A m \in hits : n <= m) - 1

\* The primary column for a profile type, as the rule states it.
PrimaryIndex(type, lower(_)) ==
  IF type = "cpu" /\ FirstNamed({"samples", "cpu"}, lower) >= 0
  THEN FirstNamed({"samples", "cpu"}, lower)
  ELSE IF type = "heap" /\ FirstNamed({"inuse_space"}, lower) >= 0
  THEN FirstNamed({"inuse_space"}, lower)
  ELSE IF type = "heap" /\ FirstNamed({"alloc_space"}, lower) >= 0
  THEN FirstNamed({"alloc_space"}, lower)
  ELSE 0

AsWritten(str) == str

\* convert() has chosen the column (no explicit sampleTypeIndex was given).
Chosen == entry # "analyzeProfile" /\ pc # "idle" /\ options.sampleTypeIndex = None

\* C14 as claimed: the chosen column is the one of the rule for the kind
\* names as the profile has them.
C14_PrimaryIndexAsWritten ==
  Chosen => sampleTypeIndex = PrimaryIndex(profileType[1], AsWritten)

\* C14 (amended): the chosen column is the one of the rule for the kind
\* names converted to lower case; for a profile with at least one kind it is
\* in range and the call does not end with the invalid-index error.
C14_PrimarySampleTypeIndex ==
  Chosen =>
    /\ sampleTypeIndex = PrimaryIndex(profileType[1], toLowerCase)
    /\ Len(profile.sampleTypes) >= 1 => (InRange /\ ~Thrown)

\* C14 witness: the kinds wall and CPU, detected as cpu; the column is 1,
\* the one of CPU, and the call has returned.
C14_Witness ==
  /\ Chosen
  /\ profileType = Some("cpu")
  /\ Len(profile.sampleTypes) = 2
  /\ profile.sampleTypes[1].type = "wall"
  /\ profile.sampleTypes[2].type = "CPU"
  /\ sampleTypeIndex = 1
  /\ Returned

\* The decimal numeral with two decimals nearest to num / scale (scale is a
\* power of ten, num >= scale).
TwoDecimals(num, scale) ==
  LET cent == scale \div 100
      h == CHOOSE x \in {num \div cent + 1, num \div cent} :
             2 * Abs(num - x * cent) <= cent
  IN ToString(h \div 100) \o "." \o ToString((h % 100) \div 10) \o ToString(h % 10)

\* The text the rule gives for a value in a unit; time, size and counter are
\* the sets of unit names that select the three scales.
Scaled(num, unit, time, size, counter) ==
  IF unit \in time
  THEN IF num >= 1000000000 THEN TwoDecimals(num, 1000000000) \o "s"
       ELSE IF num >= 1000000 THEN TwoDecimals(num, 1000000) \o "ms"
       ELSE IF num >= 1000 THEN TwoDecimals(num, 1000) \o "µs"
       ELSE ToString(num) \o "ns"
  ELSE IF unit \in size
  THEN IF num >= 1000000000 THEN TwoDecimals(num, 1000000000) \o " GB"
       ELSE IF num >= 1000000 THEN TwoDecimals(num, 1000000) \o " MB"
       ELSE IF num >= 1000 THEN TwoDecimals(num, 1000) \o " KB"
       ELSE ToString(num) \o " B"
  ELSE IF unit \in counter
  THEN IF num >= 1000000 THEN TwoDecimals(num, 1000000) \o "M"
       ELSE IF num >= 1000 THEN TwoDecimals(num, 1000) \o "K"
       ELSE ToString(num)
  ELSE ToString(num) \o " " \o unit

\* formatDetailed has written the "Total Value" line.
TotalShown == output.kind = "text" /\ output.totalValue # None

\* The total of the result is value, in the unit unit.
TotalIs(value, unit) ==
  TotalShown /\ result.totalValue = value /\ result.sampleType.unit = unit

\* C15 as claimed: the scales of nanoseconds, bytes and count; any other unit
\* gives "<value> <unit>".
C15_FormatValueAsWritten ==
  TotalShown =>
    output.totalValue =
      Some(Scaled(result.totalValue, result.sampleType.unit,
                  {"nanoseconds"}, {"bytes"}, {"count"}))

\* C15 (amended): the unit is compared in lower case; nanoseconds and ns
\* select the time scale, bytes the size scale, count and samples the
\* counter scale, with inclusive lower bounds, two decimals for scaled
\* values and none for base-unit values; any other unit gives
\* "<value> <unit>" with the unit as given.
C15_FormatValue ==
  /\ TotalShown =>
       output.totalValue =
         Some(IF toLowerCase(result.sampleType.unit)
                   \in {"nanoseconds", "ns", "bytes", "count", "samples"}
              THEN Scaled(result.totalValue, toLowerCase(result.sampleType.unit),
                          {"nanoseconds", "ns"}, {"bytes"}, {"count", "samples"})
              ELSE ToString(result.totalValue) \o " " \o result.sampleType.unit)
  /\ TotalIs(1500000000, "nanoseconds") => output.totalValue = Some("1.50s")
  /\ TotalIs(1500, "bytes") => output.totalValue = Some("1.50 KB")
  /\ TotalIs(1500, "count") => output.totalValue = Some("1.50K")
  /\ TotalIs(150, "nanoseconds") => output.totalValue = Some("150ns")

\* C15 witness: exactly 1e9 in the unit ns is shown in seconds.
C15_Witness ==
  /\ TotalIs(1000000000, "ns")
  /\ output.totalValue = Some("1.00s")

\* The caller gave no format: convert() without options.format, the command
\* line without --format.
NoFormatGiven ==
  \/ entry = "convert" /\ options.format = None
  \/ entry = "cli" /\ argv.format = None

\* C18 (refuted by the code): when the caller gives no format, the text is
\* built by the adaptive formatter, from the command line and from convert()
\* alike.
C18_AdaptiveDefault ==
  (output.kind = "text" /\ NoFormatGiven) => output.formatter = "formatAdaptive"

(***************************************************************************)
(* The two passes run independently.                                       *)
(***************************************************************************)
\* The aggregator's map after the first n samples, and the tree builder's
\* tree after the first n samples, each computed on its own.
RECURSIVE StatsAfter(_)
StatsAfter(n) ==
  IF n = 0 THEN <<>>
  ELSE AggregateSample(StatsAfter(n - 1), Samples[n], sampleTypeIndex)

RECURSIVE TreeAfter(_)
TreeAfter(n) ==
  IF n = 0 THEN SeedRoot(ColumnTotal)
  ELSE TreeSample(TreeAfter(n - 1), Samples[n], sampleTypeIndex)

\* What the sequential call of analyzeProfile returns.
SequentialStats == StatsPercentages(StatsAfter(Len(Samples)), ColumnTotal)

SequentialTree == calculateTreePercentages(TreeAfter(Len(Samples)), RootPath, ColumnTotal)

\* C16: however the steps of the two passes interleave (one pass wholly
\* before the other included), each pass's data depend on its own progress
\* alone, and the returned functionStats and call tree are those of the
\* sequential call.
C16_PassesIndependent ==
  /\ pc = "fork" =>
       /\ functionStats = (IF par.agg = "done" THEN SequentialStats
                           ELSE StatsAfter(pos - 1))
       /\ callTree = (IF par.tree = "done" THEN SequentialTree
                      ELSE TreeAfter(par.pos - 1))
  /\ (Returned /\ result.totalValue # 0) =>
       /\ result.functionStats = SequentialStats
       /\ result.callTree = SequentialTree

\* C16 witness: the tree builder has finished a profile of two samples while
\* the aggregator has read one of them.
C16_Witness ==
  /\ pc = "fork"
  /\ Len(Samples) = 2
  /\ par.tree = "done"
  /\ par.agg = "run"
  /\ pos = 2
  /\ functionStats # <<>>
  /\ Len(callTree[RootPath].children) > 0

(***************************************************************************)
(* Callers and callees.                                                    *)
(***************************************************************************)
\* The names of the Frames of the Location at position i of sample n (none
\* when the stack has no such position).
NamesAt(n, i) ==
  IF i \in DOMAIN Samples[n].stack
  THEN {Samples[n].stack[i].lines[j].function.name :
          j \in DOMAIN Samples[n].stack[i].lines}
  ELSE {}

\* The occurrences of a key: the processed samples with a non-zero value and
\* the stack positions where a Frame has the key.
Occurrences(key) ==
  UNION {{<<n, i>> : i \in {k \in DOMAIN Samples[n].stack :
                              \E j \in DOMAIN Samples[n].stack[k].lines :
                                FrameKey(Samples[n].stack[k].lines[j]) = key}} :
           n \in {m \in 1..Aggregated : Selected(m) # 0}}

\* The names at distance d of the given occurrences.
AdjacentNames(occurrences, d) ==
  UNION {NamesAt(o[1], o[2] + d) : o \in occurrences}

\* C21: the callers of every row are exactly the names of the Frames one
\* position further out than an occurrence of the row's key in a non-zero
\* sample, its callees exactly those one position further in; each name is
\* held once.
C21_CallerCalleeAdjacency ==
  \A r \in DOMAIN functionStats :
    LET occurrences == Occurrences(functionStats[r].key)
    IN /\ Range(functionStats[r].callers) = AdjacentNames(occurrences, 1)
       /\ Range(functionStats[r].callees) = AdjacentNames(occurrences, -1)
       /\ Cardinality(Range(functionStats[r].callers)) = Len(functionStats[r].callers)
       /\ Cardinality(Range(functionStats[r].callees)) = Len(functionStats[r].callees)

\* C21 witness: the result for the one sample [A, B, C]; B has the caller C
\* and the callee A, and C is no caller of A.
C21_Witness ==
  /\ Returned
  /\ Samples = OneSample(<<Loc("A"), Loc("B"), Loc("C")>>, 100)
  /\ RowOf(result.functionStats, "B@app.js:1").callers = <<"C">>
  /\ RowOf(result.functionStats, "B@app.js:1").callees = <<"A">>
  /\ RowOf(result.functionStats, "A@app.js:1").callers = <<"B">>

(***************************************************************************)
(* The call tree and the samples.                                          *)
(***************************************************************************)
\* Number of samples the tree builder has processed into callTree.
TreeBuilt ==
  IF pc = "tree" THEN pos - 1
  ELSE IF pc \in {"hotspots", "paths", "return"} THEN Len(Samples)
  ELSE IF pc = "done" /\ Returned /\ result.totalValue # 0 THEN Len(Samples)
  ELSE 0

\* The keys of the Frames of a stack from position i outwards-in: the
\* Locations from the outermost to the leaf, the Frames of a Location in the
\* order of its lines.
RECURSIVE WalkKeys(_, _)
WalkKeys(stack, i) ==
  IF i < 1 THEN <<>>
  ELSE [j \in DOMAIN stack[i].lines |-> FrameKey(stack[i].lines[j])]
         \o WalkKeys(stack, i - 1)

\* The root-to-leaf Frame sequence of sample n.
FrameSequence(n) == WalkKeys(Samples[n].stack, Len(Samples[n].stack))

StartsWith(seq, p) == Len(p) <= Len(seq) /\ SubSeq(seq, 1, Len(p)) = p

\* Sum of the values of the processed samples that satisfy Sel.
ValueOfSamples(Sel(_)) ==
  SumOver([n \in 1..TreeBuilt |-> IF Sel(n) THEN Selected(n) ELSE 0], 1..TreeBuilt)

Through(node) ==
  LET Sel(n) == StartsWith(FrameSequence(n), node) IN ValueOfSamples(Sel)

EndingAt(node) ==
  LET Sel(n) == FrameSequence(n) = node IN ValueOfSamples(Sel)

\* The non-empty prefixes of the Frame sequences of the processed samples
\* with a non-zero value.
WalkedPaths ==
  UNION {{SubSeq(FrameSequence(n), 1, k) : k \in 1..Len(FrameSequence(n))} :
           n \in {m \in 1..TreeBuilt : Selected(m) # 0}}

\* C22: the non-root nodes are the prefixes of the Frame sequences of the
\* processed non-zero samples, one node per key path, each listed once among
\* its parent's children; the cumulativeValue of a node is the sum of the
\* values of the samples whose Frame sequence starts with its key path.  The
\* sample [A, A, B] with value 50 gives the chain root -> B -> A -> A with 50
\* on each node.
C22_TreeAccumulation ==
  /\ DOMAIN callTree \ {RootPath} = WalkedPaths
  /\ \A node \in DOMAIN callTree \ {RootPath} :
       /\ callTree[node].key = node[Len(node)]
       /\ callTree[node].cumulativeValue = Through(node)
       /\ Cardinality({c \in DOMAIN callTree[Parent(node)].children :
                         callTree[Parent(node)].children[c] = node[Len(node)]}) = 1
  /\ \A node \in DOMAIN callTree :
       \A c \in DOMAIN callTree[node].children :
         Append(node, callTree[node].children[c]) \in DOMAIN callTree
  /\ (Returned /\ Samples = OneSample(<<Loc("A"), Loc("A"), Loc("B")>>, 50)) =>
       /\ DOMAIN result.callTree =
            {RootPath, <<"B@app.js:1">>, <<"B@app.js:1", "A@app.js:1">>,
             <<"B@app.js:1", "A@app.js:1", "A@app.js:1">>}
       /\ \A node \in DOMAIN result.callTree : result.callTree[node].cumulativeValue = 50
  /\ (Returned /\ result.totalValue # 0) => 
       \A node \in DOMAIN callTree :
         result.callTree[node].cumulativeValue = callTree[node].cumulativeValue

\* C22 witness: two samples with different values whose walks share their
\* first node and then part; the shared node has the sum of both.
C22_Witness ==
  /\ Returned
  /\ Len(Samples) = 2
  /\ Selected(1) # Selected(2)
  /\ \E node \in DOMAIN result.callTree :
       /\ Len(node) = 1
       /\ Len(result.callTree[node].children) = 1
       /\ StartsWith(FrameSequence(1), node)
       /\ StartsWith(FrameSequence(2), node)
       /\ FrameSequence(1) # FrameSequence(2)
       /\ result.callTree[node].cumulativeValue = Selected(1) + Selected(2)

\* C23: the selfValue of every node, the root included, is the sum of the
\* values of the processed samples whose walk ends at the node, and of no
\* other; in a returned result the selfValue of all nodes sum to totalValue.
C23_TreeSelfValue ==
  /\ \A node \in DOMAIN callTree : callTree[node].selfValue = EndingAt(node)
  /\ Returned =>
       /\ SumOver([node \in DOMAIN result.callTree |->
                     result.callTree[node].selfValue], DOMAIN result.callTree)
            = result.totalValue
       /\ result.totalValue # 0 =>
            \A node \in DOMAIN result.callTree :
              result.callTree[node].selfValue = callTree[node].selfValue

\* C23 witness: a returned result of two samples with different values, one
\* without Frames; the root and a root child have a selfValue.
C23_Witness ==
  /\ Returned
  /\ Len(Samples) = 2
  /\ Selected(1) # Selected(2)
  /\ result.callTree[RootPath].selfValue # 0
  /\ \E node \in DOMAIN result.callTree \ {RootPath} :
       result.callTree[node].selfValue # 0

\* Sum of the cumulativeValue of the children of a node.
ChildrenSum(tree, node) ==
  SumOver([c \in DOMAIN tree[node].children |->
             tree[Append(node, tree[node].children[c])].cumulativeValue],
          DOMAIN tree[node].children)

\* C26: in the tree of a returned result with a non-zero total every node,
\* the root included, has cumulativeValue = selfValue + the cumulativeValue
\* of its children; with non-negative sample values no child has a larger
\* cumulativeValue than its parent.  The nodes below the root satisfy the
\* equation after every sample of the loop.
C26_TreeValueEquation ==
  /\ (Returned /\ result.totalValue # 0) =>
       /\ \A node \in DOMAIN result.callTree :
            result.callTree[node].cumulativeValue
              = result.callTree[node].selfValue + ChildrenSum(result.callTree, node)
       /\ NonNegativeValues =>
            \A node \in DOMAIN result.callTree \ {RootPath} :
              result.callTree[node].cumulativeValue
                <= result.callTree[Parent(node)].cumulativeValue
  /\ \A node \in DOMAIN callTree \ {RootPath} :
       callTree[node].cumulativeValue
         = callTree[node].selfValue + ChildrenSum(callTree, node)

\* C26 witness: a returned tree with a node that has a selfValue and a child
\* (one sample ends where another passes through).
C26_Witness ==
  /\ Returned
  /\ Len(Samples) = 2
  /\ \E node \in DOMAIN result.callTree \ {RootPath} :
       /\ result.callTree[node].selfValue # 0
       /\ Len(result.callTree[node].children) > 0
       /\ result.callTree[node].cumulativeValue # result.callTree[node].selfValue

(***************************************************************************)
(* The critical-path lines of the formatters.                              *)
(***************************************************************************)
\* The names of the functions of a CriticalPath, from the root's child to
\* the leaf.
PathNames(path) == [j \in DOMAIN path.path |-> path.path[j].name]

\* C24 (refuted by the code): every line of the critical-paths section of
\* formatSummary and formatAdaptive names every function of its CriticalPath,
\* from the root's child down to the leaf, in order.
C24_PathsRendered ==
  (output.kind = "text" /\ output.formatter \in {"formatSummary", "formatAdaptive"}) =>
    \A i \in DOMAIN output.criticalPaths :
      output.criticalPaths[i].names = PathNames(result.criticalPaths[i])

(***************************************************************************)
(* Bounds of a FunctionStats row.                                          *)
(***************************************************************************)
\* C25 (refuted by the code): in a returned result of a profile with
\* non-negative values and a non-zero total every row has
\* 0 <= selfValue <= cumulativeValue <= totalValue,
\* 1 <= sampleCount <= totalSamples and selfPercent <= cumulativePercent <= 100.
C25_RowBounds ==
  (Returned /\ NonNegativeValues /\ result.totalValue # 0) =>
    \A r \in DOMAIN result.functionStats :
      LET row == result.functionStats[r]
      IN /\ 0 <= row.selfValue
         /\ row.selfValue <= row.cumulativeValue
         /\ row.cumulativeValue <= result.totalValue
         /\ 1 <= row.sampleCount
         /\ row.sampleCount <= result.totalSamples
         /\ RatGeq(row.cumulativePercent, row.selfPercent)
         /\ RatGeq(Rat(100, 1), row.cumulativePercent)

(***************************************************************************)
(* The flat statistics and the tree.                                       *)
(***************************************************************************)
StatsKeys(stats) == {stats[r].key : r \in DOMAIN stats}

TreeKeys(tree) == {tree[node].key : node \in DOMAIN tree \ {RootPath}}

\* Every Location of every sample has exactly one Frame.
SingleFrames ==
  \A n \in DOMAIN Samples :
    \A i \in DOMAIN Samples[n].stack : Len(Samples[n].stack[i].lines) = 1

\* Sum of selfValue over the nodes below the root that have the key.
TreeSelfValue(tree, key) ==
  LET nodes == {node \in DOMAIN tree \ {RootPath} : tree[node].key = key}
  IN SumOver([node \in nodes |-> tree[node].selfValue], nodes)

\* C27: when both passes have ended, and in every returned result, the keys
\* of the FunctionStats rows are the keys of the tree nodes below the root;
\* when every Location has exactly one Frame, the selfValue of a row is the
\* sum of selfValue over the tree nodes with its key.
C27_StatsAndTreeAgree ==
  /\ pc \in {"hotspots", "paths", "return"} =>
       /\ StatsKeys(functionStats) = TreeKeys(callTree)
       /\ SingleFrames =>
            \A r \in DOMAIN functionStats :
              functionStats[r].selfValue
                = TreeSelfValue(callTree, functionStats[r].key)
  /\ Returned =>
       /\ StatsKeys(result.functionStats) = TreeKeys(result.callTree)
       /\ SingleFrames =>
            \A r \in DOMAIN result.functionStats :
              result.functionStats[r].selfValue
                = TreeSelfValue(result.callTree, result.functionStats[r].key)

\* C27 witness: a returned result where a key has two tree nodes with a
\* selfValue each, and one row.
C27_Witness ==
  /\ Returned
  /\ SingleFrames
  /\ \E m, n \in DOMAIN result.callTree \ {RootPath} :
       /\ m # n
       /\ result.callTree[m].key = result.callTree[n].key
       /\ result.callTree[m].selfValue # 0
       /\ result.callTree[n].selfValue # 0
       /\ RowOf(result.functionStats, result.callTree[m].key).selfValue
            = result.callTree[m].selfValue + result.callTree[n].selfValue

(***************************************************************************)
(* The order of the samples.                                               *)
(***************************************************************************)
\* A profile is compared with every exchange of two neighbouring samples
\* and with the reversal.  The exchanges generate every permutation, and the
\* wide and the skipped profiles hold every order of their samples, so for
\* them the comparison covers every permutation.
Exchange(n, k) ==
  [i \in 1..n |-> IF i = k THEN k + 1 ELSE IF i = k + 1 THEN k ELSE i]

Rearrangements(n) ==
  {Exchange(n, k) : k \in 1..(n - 1)} \cup {[i \in 1..n |-> n + 1 - i]}

\* The passes over the samples in the order q.
RECURSIVE PermutedTotal(_, _)
PermutedTotal(q, n) ==
  IF n = 0 THEN 0
  ELSE addNumeric(PermutedTotal(q, n - 1), ValueAt(Samples[q[n]], sampleTypeIndex))

RECURSIVE PermutedStats(_, _)
PermutedStats(q, n) ==
  IF n = 0 THEN <<>>
  ELSE AggregateSample(PermutedStats(q, n - 1), Samples[q[n]], sampleTypeIndex)

RECURSIVE PermutedTree(_, _)
PermutedTree(q, n) ==
  IF n = 0 THEN SeedRoot(ColumnTotal)
  ELSE TreeSample(PermutedTree(q, n - 1), Samples[q[n]], sampleTypeIndex)

SameRows(stats, other) ==
  /\ StatsKeys(stats) = StatsKeys(other)
  /\ \A r \in DOMAIN stats :
       LET row == stats[r]
           twin == RowOf(other, row.key)
       IN /\ row.selfValue = twin.selfValue
          /\ row.cumulativeValue = twin.cumulativeValue
          /\ row.sampleCount = twin.sampleCount
          /\ Range(row.callers) = Range(twin.callers)
          /\ Range(row.callees) = Range(twin.callees)

SameNodes(tree, other) ==
  /\ DOMAIN tree = DOMAIN other
  /\ \A node \in DOMAIN tree :
       /\ tree[node].selfValue = other[node].selfValue
       /\ tree[node].cumulativeValue = other[node].cumulativeValue

\* C28: the returned totalValue, the values, sample count, caller set and
\* callee set of every row, and the values of every tree node (matched by
\* key path) are those of the analysis of the samples in any other order.
C28_SampleOrder ==
  Returned =>
    \A q \in Rearrangements(Len(Samples)) :
      /\ result.totalValue = PermutedTotal(q, Len(Samples))
      /\ result.totalValue # 0 =>
           /\ SameRows(result.functionStats, PermutedStats(q, Len(Samples)))
           /\ SameNodes(result.callTree, PermutedTree(q, Len(Samples)))

\* C28 witness: a returned result of two samples with different values and
\* callers of one leaf; in the other order the rows are created in another
\* order.
C28_Witness ==
  /\ Returned
  /\ Len(Samples) = 2
  /\ Selected(1) # Selected(2)
  /\ Len(result.functionStats) > 1
  /\ PermutedStats(<<2, 1>>, 2)[1].key # result.functionStats[1].key
  /\ \E r \in DOMAIN result.functionStats : result.functionStats[r].sampleCount = 2

(***************************************************************************)
(* The first critical path, and the paths as chains of the tree.           *)
(***************************************************************************)
\* node is reached from the root by descending into the hottest child at
\* every step.
IsGreedy(tree, node) == \A j \in DOMAIN node : IsHottest(tree, Prefix(node, j))

\* C29: in a returned result of a profile with non-negative values whose
\* root has a child, criticalPaths is not empty and its first path is the
\* chain from the hottest root child through the hottest child of every node
\* down to a leaf (the first inserted among equals), with the
\* cumulativePercent of that root child.
C29_GreedyHottestChain ==
  (/\ Returned
   /\ NonNegativeValues
   /\ Len(result.callTree[RootPath].children) > 0) =>
     /\ Len(result.criticalPaths) > 0
     /\ \E node \in DOMAIN result.callTree \ {RootPath} :
          /\ IsPathTo(result.callTree, node, result.criticalPaths[1].path)
          /\ IsLeaf(result.callTree, node)
          /\ IsGreedy(result.callTree, node)
          /\ result.criticalPaths[1].cumulativePercent
               = result.callTree[Prefix(node, 1)].cumulativePercent

\* C29 witness: a returned result whose root has two children of the same
\* cumulativeValue, the first of them with a child.
C29_Witness ==
  /\ Returned
  /\ NonNegativeValues
  /\ Len(result.callTree[RootPath].children) = 2
  /\ Len(result.criticalPaths) = 2
  /\ Len(result.criticalPaths[1].path) = 2
  /\ result.criticalPaths[1].cumulativePercent = Rat(50, 1)
  /\ result.criticalPaths[2].cumulativePercent = Rat(50, 1)

\* The leaves of the tree to which a path leads.
LeavesOf(tree, path) ==
  {node \in DOMAIN tree \ {RootPath} : IsPathTo(tree, node, path) /\ IsLeaf(tree, node)}

\* Every path of the list leads from a root child, child by child, to a
\* leaf, and the list holds a path no more often than the tree has leaves
\* with that path: no leaf is recorded twice.
ChainsOfTree(tree, paths) ==
  \A n \in DOMAIN paths :
    /\ Len(paths[n].path) > 0
    /\ LeavesOf(tree, paths[n].path) # {}
    /\ Cardinality({m \in DOMAIN paths : paths[m].path = paths[n].path})
         <= Cardinality(LeavesOf(tree, paths[n].path))

\* C30: the paths the traversal has recorded, and the paths of a returned
\* result, are chains of the call tree that end in a leaf, and no leaf is
\* recorded in two paths.
C30_PathsAreChains ==
  /\ pc = "return" => ChainsOfTree(callTree, recordedPaths)
  /\ (Returned /\ result.totalValue # 0) =>
       /\ ChainsOfTree(result.callTree, recordedPaths)
       /\ ChainsOfTree(result.callTree, result.criticalPaths)

\* C30 witness: a returned result with the leaves M1 and M2 three levels
\* below the root, both recorded.
C30_Witness ==
  /\ Returned
  /\ Len(result.criticalPaths) >= 3
  /\ \E m, n \in DOMAIN result.criticalPaths :
       /\ m # n
       /\ Len(result.criticalPaths[m].path) = 3
       /\ Len(result.criticalPaths[n].path) = 3
       /\ result.criticalPaths[m].path[2] = result.criticalPaths[n].path[2]
       /\ result.criticalPaths[m].path[3].name = "M1"
       /\ result.criticalPaths[n].path[3].name = "M2"

====
